---- MODULE Spec2Model ----
(***************************************************************************)
(* A model of the TFHE core primitives of tfhe-rs: the signed decomposers  *)
(* (native and non-native modulus), LWE keyswitch-key generation, CRSGLWE  *)
(* encryption / decryption and the LWE trace-packing keyswitch.            *)
(*                                                                         *)
(* Scalars are ScalarBits wide (the code's u32 / u64, scaled down); every  *)
(* wrapping operation is taken modulo 2^ScalarBits.  The code's u128       *)
(* intermediates never overflow for ScalarBits-wide operands and are       *)
(* modelled by exact integers; the cast back to the scalar type truncates. *)
(***************************************************************************)
EXTENDS Integers, Sequences, FiniteSets, TLC

(***************************************************************************)
(* Bounds of the model.                                                    *)
(***************************************************************************)
\* Width W of the scalar type (u32 / u64 in the code).
ScalarBits == 6

\* Largest LWE dimension of the secret keys of a keyswitch key.
MaxLweDimension == 2

\* Largest base_log and level_count of a keyswitch key.
MaxBaseLog == 2

MaxLevelCount == 2

\* Seeds of the random generators range over 0 .. MaxSeed.
MaxSeed == 1

\* Repetitions of the keyswitch-key equivalence test (NB_TEST in the code).
MaxRepetitions == 2

\* The items of a bootstrap batch (cpus_number * VECTOR_SCALING_FACTOR).
MaxBatch == 2

\* Largest container length, codimension and polynomial size handed to the
\* constructors of the CRS entities.
MaxEntLen == 4

MaxEntCodim == 3

MaxEntPolynomialSize == 2

\* Largest dimension k, codimension d and polynomial size N of a CRSGLWE key.
MaxCrsDimension == 2

MaxCrsCodimension == 2

MaxPolynomialSize == 2

\* Bits of a message encoded in the most significant bits of a coefficient.
MessageBits == 2

TwoPowW == 2 ^ ScalarBits

Scalars == 0 .. (TwoPowW - 1)

(***************************************************************************)
(* Option values: None is the empty sequence, Some(v) the one-element one. *)
(***************************************************************************)
None == << >>

Some(v) == << v >>

(***************************************************************************)
(* Scalar arithmetic (UnsignedInteger): wrapping operations, shifts, bits. *)
(***************************************************************************)
wrapping_add(a, b) == (a + b) % TwoPowW

wrapping_sub(a, b) == ((a - b) + TwoPowW) % TwoPowW

wrapping_mul(a, b) == (a * b) % TwoPowW

wrapping_neg(a) == (TwoPowW - a) % TwoPowW

\* a << s on a W-bit scalar (s < W): the bits shifted out are lost.
Shl(a, s) == (a * (2 ^ s)) % TwoPowW

\* a >> s on an unsigned scalar.
Shr(a, s) == a \div (2 ^ s)

RECURSIVE BitAnd(_, _)
BitAnd(a, b) ==
    IF a = 0 \/ b = 0 THEN 0
    ELSE ((a % 2) * (b % 2)) + 2 * BitAnd(a \div 2, b \div 2)

RECURSIVE BitOr(_, _)
BitOr(a, b) ==
    IF a = 0 THEN b
    ELSE IF b = 0 THEN a
    ELSE (IF (a % 2) + (b % 2) > 0 THEN 1 ELSE 0) + 2 * BitOr(a \div 2, b \div 2)

\* Scalar::cast_from(u128): keeps the low W bits.
cast_from(wide) == wide % TwoPowW

\* into_signed(): the two's complement reading of a W-bit scalar.
into_signed(a) == IF a >= TwoPowW \div 2 THEN a - TwoPowW ELSE a

\* divide_round_to_u128(numerator, denominator): the quotient rounded to nearest,
\* halves up, computed in u128.
divide_round_to_u128(numerator, denominator) ==
    (numerator + (denominator \div 2)) \div denominator

(***************************************************************************)
(* SignedDecomposer (native modulus 2^W).                                  *)
(***************************************************************************)
\* Mutant: the rounding bit is dropped (the input is truncated, not rounded).
closest_representable_sum_truncating(base_log, level_count, input) ==
    Shr(input, ScalarBits - level_count * base_log)

\* Mutant: the rounding mask is one bit too high.
closest_representable_sum_high_mask(base_log, level_count, input) ==
    LET non_rep_bit_count == ScalarBits - level_count * base_log
        non_rep_mask == Shl(1, non_rep_bit_count)
        non_rep_bits == BitAnd(input, non_rep_mask)
        non_rep_msb == Shr(non_rep_bits, non_rep_bit_count - 1)
        res == Shr(input, non_rep_bit_count)
    IN  res + non_rep_msb

\* The sum `res + non_rep_msb` of closest_representable, before any wrap.
closest_representable_sum(base_log, level_count, input) ==
    LET non_rep_bit_count == ScalarBits - level_count * base_log
        non_rep_mask == Shl(1, non_rep_bit_count - 1)
        non_rep_bits == BitAnd(input, non_rep_mask)
        non_rep_msb == Shr(non_rep_bits, non_rep_bit_count - 1)
        res == Shr(input, non_rep_bit_count)
    IN  res + non_rep_msb

closest_representable(base_log, level_count, input) ==
    LET non_rep_bit_count == ScalarBits - level_count * base_log
    IN  Shl(closest_representable_sum(base_log, level_count, input) % TwoPowW,
            non_rep_bit_count)

\* Mutant: the shift is base_log * level instead of its complement to W.
to_recomposition_summand_low_shift(term) ==
    Shl(term.value, term.base_log * term.level)

\* DecompositionTerm::to_recomposition_summand: value << (W - base_log * level).
to_recomposition_summand(term) ==
    LET shift == ScalarBits - term.base_log * term.level
    IN  Shl(term.value, shift)

\* Mutant: the accessor hands out the recomposition summand.
DecompositionTerm_value_as_summand(term) == to_recomposition_summand(term)

\* DecompositionTerm::value and DecompositionTermNonNative::value.
DecompositionTerm_value(term) == term.value

\* One level of the signed decomposition: the low base_log bits of the state
\* as a digit in [-B/2, B/2), the carry pushed to the next level.
decompose_one_level(base_log, state) ==
    LET mod_b_mask == (2 ^ base_log) - 1
        res == BitAnd(state, mod_b_mask)
        shifted == Shr(state, base_log)
        carry0 == BitAnd(BitOr(wrapping_sub(res, 1), shifted), res)
        carry == Shr(carry0, base_log - 1)
    IN  [digit |-> wrapping_sub(res, Shl(carry, base_log)),
         state |-> wrapping_add(shifted, carry)]

\* SignedDecompositionIter::new on an input already rounded.
SignedDecompositionIter_new(input, base_log, level_count) ==
    [base_log      |-> base_log,
     level_count   |-> level_count,
     state         |-> Shr(input, ScalarBits - base_log * level_count),
     current_level |-> level_count,
     fresh         |-> TRUE]

\* Iterator::next: << the iterator after the call, the term yielded or None >>.
SignedDecompositionIter_next(it) ==
    IF it.current_level = 0
    THEN [iter |-> [it EXCEPT !.fresh = FALSE], item |-> None]
    ELSE LET one == decompose_one_level(it.base_log, it.state)
         IN  [iter |-> [it EXCEPT !.fresh = FALSE,
                                  !.state = one.state,
                                  !.current_level = it.current_level - 1],
              item |-> Some([level    |-> it.current_level,
                             base_log |-> it.base_log,
                             value    |-> one.digit])]

\* Mutant: the iterator is built with one level fewer than the decomposer has.
decompose_one_level_short(base_log, level_count, input) ==
    SignedDecompositionIter_new(
        closest_representable(base_log, level_count, input), base_log,
        level_count - 1)

\* SignedDecomposer::decompose: the iterator over the rounded input.
decompose(base_log, level_count, input) ==
    SignedDecompositionIter_new(
        closest_representable(base_log, level_count, input), base_log, level_count)

RECURSIVE recompose_fold(_, _)
recompose_fold(it, acc) ==
    LET r == SignedDecompositionIter_next(it)
    IN  IF r.item = None THEN acc
        ELSE recompose_fold(r.iter,
                            wrapping_add(acc, to_recomposition_summand(r.item[1])))

\* Mutant: the freshness of the iterator is not looked at.
recompose_whatever_is_left(decomp) == Some(recompose_fold(decomp, 0))

\* SignedDecomposer::recompose.
recompose(decomp) ==
    IF decomp.fresh THEN Some(recompose_fold(decomp, 0)) ELSE None

(***************************************************************************)
(* SignedDecomposerNonNative (custom modulus q held in a W-bit scalar).    *)
(***************************************************************************)
\* Mutant: the interval is round(q / B^l), as in the recomposition summand.
closest_representable_wide_rounded_interval(base_log, level_count, q, input) ==
    LET base_to_level_count == 2 ^ (base_log * level_count)
        smallest_representable == divide_round_to_u128(q, base_to_level_count)
        rounded == divide_round_to_u128(input, smallest_representable)
    IN  rounded * smallest_representable

\* The u128 value closest_representable computes before the cast to Scalar.
closest_representable_wide(base_log, level_count, q, input) ==
    LET base_to_level_count == 2 ^ (base_log * level_count)
        smallest_representable == q \div base_to_level_count
        rounded == divide_round_to_u128(input, smallest_representable)
    IN  rounded * smallest_representable

closest_representable_non_native(base_log, level_count, q, input) ==
    cast_from(closest_representable_wide(base_log, level_count, q, input))

\* DecompositionTermNonNative::to_recomposition_summand(level_count).
to_recomposition_summand_non_native(term, level_count) ==
    LET base_to_the_level_count == 2 ^ (term.base_log * level_count)
        unit_interval == divide_round_to_u128(term.q, base_to_the_level_count)
        summand == term.value * (2 ^ (term.base_log * (level_count - term.level)))
                   * unit_interval
    IN  cast_from(summand)

\* SignedDecompositionIterNonNative::new on an input already rounded: the
\* state is the rounded quotient of the input by floor(q / B^l).
SignedDecompositionIterNonNative_new(input, base_log, level_count, q) ==
    [base_log      |-> base_log,
     level_count   |-> level_count,
     q             |-> q,
     state         |-> cast_from(divide_round_to_u128(
                           input, q \div (2 ^ (base_log * level_count)))),
     current_level |-> level_count,
     fresh         |-> TRUE]

SignedDecompositionIterNonNative_next(it) ==
    IF it.current_level = 0
    THEN [iter |-> [it EXCEPT !.fresh = FALSE], item |-> None]
    ELSE LET one == decompose_one_level(it.base_log, it.state)
         IN  [iter |-> [it EXCEPT !.fresh = FALSE,
                                  !.state = one.state,
                                  !.current_level = it.current_level - 1],
              item |-> Some([level    |-> it.current_level,
                             base_log |-> it.base_log,
                             value    |-> one.digit,
                             q        |-> it.q])]

decompose_non_native(base_log, level_count, q, input) ==
    SignedDecompositionIterNonNative_new(
        closest_representable_non_native(base_log, level_count, q, input),
        base_log, level_count, q)

RECURSIVE recompose_fold_non_native(_, _, _)
recompose_fold_non_native(it, level_count, acc) ==
    LET r == SignedDecompositionIterNonNative_next(it)
    IN  IF r.item = None THEN acc
        ELSE recompose_fold_non_native(
                 r.iter, level_count,
                 wrapping_add(acc,
                     to_recomposition_summand_non_native(r.item[1], level_count)))

recompose_non_native(level_count, decomp) ==
    IF decomp.fresh
    THEN Some(recompose_fold_non_native(decomp, level_count, 0))
    ELSE None

(***************************************************************************)
(* Random generators.  A generator seeded with `seed` yields a fixed       *)
(* stream; its state is the seed and the position reached in the stream.   *)
(***************************************************************************)
\* The pos-th uniform scalar of the mask stream seeded with seed.
MaskSample(seed, pos) == ((seed + 2) * (pos + 3) * 11 + pos) % TwoPowW

\* The pos-th noise sample of the noise stream seeded with seed: -1, 0 or 1.
NoiseSample(seed, pos) == ((((seed + 1) * (pos + 2)) % 3) + TwoPowW - 1) % TwoPowW

\* The pos-th bit of the secret stream seeded with seed.
SecretSample(seed, pos) ==
    ((((seed * seed + seed + 3) * (pos + 1) * (pos + 2)) \div 4) + seed * pos) % 2

\* DeterministicSeeder::new(seed)
DeterministicSeeder_new(seed) == [seed |-> seed, drawn |-> 0]

\* Seeder::seed: << the seeder after the call, the seed drawn >>.
Seeder_seed(seeder) ==
    [seeder |-> [seeder EXCEPT !.drawn = seeder.drawn + 1],
     seed   |-> seeder.seed * 3 + seeder.drawn + 1]

\* EncryptionRandomGenerator::new(seed, seeder): the mask generator is seeded
\* with `seed`, the noise generator with a seed drawn from the seeder.
EncryptionRandomGenerator_new(seed, seeder) ==
    LET s == Seeder_seed(seeder)
    IN  [generator |-> [mask_seed |-> seed, mask_pos |-> 0,
                        noise_seed |-> s.seed, noise_pos |-> 0],
         seeder    |-> s.seeder]

\* The mask generator alone, as decompression rebuilds it from the seed.
MaskRandomGenerator_new(seed) ==
    [mask_seed |-> seed, mask_pos |-> 0, noise_seed |-> 0, noise_pos |-> 0]

\* n uniform scalars drawn from the mask generator.
fill_slice_with_random_mask(generator, n) ==
    [mask      |-> [t \in 1 .. n |->
                      MaskSample(generator.mask_seed, generator.mask_pos + t - 1)],
     generator |-> [generator EXCEPT !.mask_pos = generator.mask_pos + n]]

\* One noise sample drawn from the noise generator.
random_noise(generator) ==
    [noise     |-> NoiseSample(generator.noise_seed, generator.noise_pos),
     generator |-> [generator EXCEPT !.noise_pos = generator.noise_pos + 1]]

\* allocate_and_generate_new_binary_lwe_secret_key at position pos of the
\* secret stream.
generate_binary_lwe_secret_key(seed, pos, lwe_dimension) ==
    [t \in 1 .. lwe_dimension |-> SecretSample(seed, pos + t - 1)]

(***************************************************************************)
(* LWE encryption (native modulus).                                        *)
(***************************************************************************)
RECURSIVE wrapping_dot_product(_, _, _)
wrapping_dot_product(a, b, n) ==
    IF n = 0 THEN 0
    ELSE wrapping_add(wrapping_dot_product(a, b, n - 1), wrapping_mul(a[n], b[n]))

\* encrypt_lwe_ciphertext: fresh mask, body = <mask, key> + noise + plaintext.
encrypt_lwe_ciphertext(lwe_secret_key, encoded, generator) ==
    LET m == fill_slice_with_random_mask(generator, Len(lwe_secret_key))
        e == random_noise(m.generator)
        mask_key == wrapping_dot_product(m.mask, lwe_secret_key, Len(lwe_secret_key))
    IN  [ct        |-> [mask |-> m.mask,
                        body |-> wrapping_add(wrapping_add(mask_key, e.noise), encoded)],
         generator |-> e.generator]

\* encrypt_lwe_ciphertext_list: the first `upto` ciphertexts of the list are
\* encrypted in order with the one generator.
RECURSIVE encrypt_lwe_ciphertext_list(_, _, _, _, _)
encrypt_lwe_ciphertext_list(lwe_secret_key, output, encoded, generator, upto) ==
    IF upto = 0 THEN [list |-> output, generator |-> generator]
    ELSE LET before == encrypt_lwe_ciphertext_list(lwe_secret_key, output, encoded,
                                                   generator, upto - 1)
             one == encrypt_lwe_ciphertext(lwe_secret_key, encoded[upto],
                                           before.generator)
         IN  [list      |-> [before.list EXCEPT ![upto] = one.ct],
              generator |-> one.generator]

\* The seeded list: the masks are drawn and used but only the bodies are kept.
RECURSIVE encrypt_seeded_lwe_ciphertext_list_with_existing_generator(_, _, _, _, _)
encrypt_seeded_lwe_ciphertext_list_with_existing_generator(lwe_secret_key, output, encoded, generator, upto) ==
    IF upto = 0 THEN [list |-> output, generator |-> generator]
    ELSE LET before == encrypt_seeded_lwe_ciphertext_list_with_existing_generator(
                           lwe_secret_key, output, encoded, generator, upto - 1)
             one == encrypt_lwe_ciphertext(lwe_secret_key, encoded[upto],
                                           before.generator)
         IN  [list      |-> [before.list EXCEPT ![upto] = one.ct.body],
              generator |-> one.generator]

\* decrypt_lwe_ciphertext: body - <mask, key>.
decrypt_lwe_ciphertext(lwe_secret_key, ct) ==
    wrapping_sub(ct.body,
                 wrapping_dot_product(ct.mask, lwe_secret_key, Len(lwe_secret_key)))

(***************************************************************************)
(* LWE keyswitch key generation.                                           *)
(***************************************************************************)
\* LweKeyswitchKey::new: input_key_lwe_dimension blocks of level_count
\* ciphertexts of output_key_lwe_dimension mask elements and one body.
LweKeyswitchKey_new(fill_with, decomp_base_log, decomp_level_count, input_key_lwe_dimension, output_key_lwe_dimension) ==
    [decomp_base_log          |-> decomp_base_log,
     decomp_level_count       |-> decomp_level_count,
     output_key_lwe_dimension |-> output_key_lwe_dimension,
     blocks |-> [i \in 1 .. input_key_lwe_dimension |->
                   [j \in 1 .. decomp_level_count |->
                      [mask |-> [t \in 1 .. output_key_lwe_dimension |-> fill_with],
                       body |-> fill_with]]]]

\* SeededLweKeyswitchKey::new: the same with bodies only and the mask seed.
SeededLweKeyswitchKey_new(fill_with, decomp_base_log, decomp_level_count, input_key_lwe_dimension, output_key_lwe_dimension, compression_seed) ==
    [decomp_base_log          |-> decomp_base_log,
     decomp_level_count       |-> decomp_level_count,
     output_key_lwe_dimension |-> output_key_lwe_dimension,
     compression_seed         |-> compression_seed,
     blocks |-> [i \in 1 .. input_key_lwe_dimension |->
                   [j \in 1 .. decomp_level_count |-> fill_with]]]

input_key_lwe_dimension(lwe_keyswitch_key) == Len(lwe_keyswitch_key.blocks)

output_key_lwe_dimension(lwe_keyswitch_key) ==
    lwe_keyswitch_key.output_key_lwe_dimension

\* Mutant: the levels are counted from 0.
decomposition_plaintexts_buffer_from_zero(decomp_base_log, decomp_level_count, input_key_element) ==
    [level \in 1 .. decomp_level_count |->
        to_recomposition_summand([level    |-> level - 1,
                                  base_log |-> decomp_base_log,
                                  value    |-> input_key_element])]

\* The plaintexts encrypted for one input key element, levels 1..=level_count.
decomposition_plaintexts_buffer(decomp_base_log, decomp_level_count, input_key_element) ==
    [level \in 1 .. decomp_level_count |->
        to_recomposition_summand([level    |-> level,
                                  base_log |-> decomp_base_log,
                                  value    |-> input_key_element])]

\* The message of the assertion that fails at the head of
\* generate_lwe_keyswitch_key and generate_seeded_lwe_keyswitch_key: which
\* check failed and the two values its format arguments print, in order.  The
\* second argument of the output check is input_lwe_sk.lwe_dimension().
keyswitch_key_assertion_message(input_lwe_sk, output_lwe_sk, lwe_keyswitch_key) ==
    IF input_key_lwe_dimension(lwe_keyswitch_key) # Len(input_lwe_sk)
    THEN [check       |-> "input",
          destination |-> input_key_lwe_dimension(lwe_keyswitch_key),
          other       |-> Len(input_lwe_sk)]
    ELSE [check       |-> "output",
          destination |-> output_key_lwe_dimension(lwe_keyswitch_key),
          other       |-> Len(input_lwe_sk)]

\* Length of zip(input_lwe_sk, lwe_keyswitch_key.iter_mut()).
zip_len(input_lwe_sk, lwe_keyswitch_key) ==
    IF Len(input_lwe_sk) <= Len(lwe_keyswitch_key.blocks)
    THEN Len(input_lwe_sk) ELSE Len(lwe_keyswitch_key.blocks)

\* The loop of generate_lwe_keyswitch_key over the first `upto` blocks.
RECURSIVE generate_lwe_keyswitch_key_loop(_, _, _, _, _)
generate_lwe_keyswitch_key_loop(input_lwe_sk, output_lwe_sk, lwe_keyswitch_key, generator, upto) ==
    IF upto = 0 THEN [key |-> lwe_keyswitch_key, generator |-> generator]
    ELSE LET before == generate_lwe_keyswitch_key_loop(
                           input_lwe_sk, output_lwe_sk, lwe_keyswitch_key,
                           generator, upto - 1)
             buffer == decomposition_plaintexts_buffer(
                           lwe_keyswitch_key.decomp_base_log,
                           lwe_keyswitch_key.decomp_level_count,
                           input_lwe_sk[upto])
             block == encrypt_lwe_ciphertext_list(
                           output_lwe_sk, before.key.blocks[upto], buffer,
                           before.generator, lwe_keyswitch_key.decomp_level_count)
         IN  [key       |-> [before.key EXCEPT !.blocks[upto] = block.list],
              generator |-> block.generator]

\* generate_lwe_keyswitch_key, once its two assertions have passed.
generate_lwe_keyswitch_key(input_lwe_sk, output_lwe_sk, lwe_keyswitch_key, generator) ==
    generate_lwe_keyswitch_key_loop(input_lwe_sk, output_lwe_sk, lwe_keyswitch_key,
                                    generator,
                                    zip_len(input_lwe_sk, lwe_keyswitch_key))

\* Mutant: every block is encrypted from the generator's initial state.
generate_seeded_lwe_keyswitch_key_loop_restarting(input_lwe_sk, output_lwe_sk, lwe_keyswitch_key, generator, upto) ==
    LET block(i) == encrypt_seeded_lwe_ciphertext_list_with_existing_generator(
                        output_lwe_sk, lwe_keyswitch_key.blocks[i],
                        decomposition_plaintexts_buffer(
                            lwe_keyswitch_key.decomp_base_log,
                            lwe_keyswitch_key.decomp_level_count,
                            input_lwe_sk[i]),
                        generator, lwe_keyswitch_key.decomp_level_count)
    IN  [key       |-> [lwe_keyswitch_key EXCEPT
                           !.blocks = [i \in 1 .. Len(lwe_keyswitch_key.blocks) |->
                                         IF i <= upto THEN block(i).list
                                         ELSE lwe_keyswitch_key.blocks[i]]],
         generator |-> IF upto = 0 THEN generator ELSE block(upto).generator]

\* The loop of generate_seeded_lwe_keyswitch_key over the first `upto` blocks.
RECURSIVE generate_seeded_lwe_keyswitch_key_loop(_, _, _, _, _)
generate_seeded_lwe_keyswitch_key_loop(input_lwe_sk, output_lwe_sk, lwe_keyswitch_key, generator, upto) ==
    IF upto = 0 THEN [key |-> lwe_keyswitch_key, generator |-> generator]
    ELSE LET before == generate_seeded_lwe_keyswitch_key_loop(
                           input_lwe_sk, output_lwe_sk, lwe_keyswitch_key,
                           generator, upto - 1)
             buffer == decomposition_plaintexts_buffer(
                           lwe_keyswitch_key.decomp_base_log,
                           lwe_keyswitch_key.decomp_level_count,
                           input_lwe_sk[upto])
             block == encrypt_seeded_lwe_ciphertext_list_with_existing_generator(
                           output_lwe_sk, before.key.blocks[upto], buffer,
                           before.generator, lwe_keyswitch_key.decomp_level_count)
         IN  [key       |-> [before.key EXCEPT !.blocks[upto] = block.list],
              generator |-> block.generator]

\* generate_seeded_lwe_keyswitch_key, once its two assertions have passed: the
\* generator is built from the key's compression seed and the noise seeder.
generate_seeded_lwe_keyswitch_key(input_lwe_sk, output_lwe_sk, lwe_keyswitch_key, noise_seeder) ==
    LET g == EncryptionRandomGenerator_new(lwe_keyswitch_key.compression_seed,
                                           noise_seeder)
        filled == generate_seeded_lwe_keyswitch_key_loop(
                      input_lwe_sk, output_lwe_sk, lwe_keyswitch_key, g.generator,
                      zip_len(input_lwe_sk, lwe_keyswitch_key))
    IN  [key |-> filled.key, noise_seeder |-> g.seeder]

\* decompress_into_lwe_keyswitch_key: the masks are drawn again, ciphertext by
\* ciphertext, from a generator seeded with the compression seed.
decompress_into_lwe_keyswitch_key(seeded) ==
    LET n == seeded.output_key_lwe_dimension
        l == seeded.decomp_level_count
        g == MaskRandomGenerator_new(seeded.compression_seed)
        mask_of(c) ==
            fill_slice_with_random_mask([g EXCEPT !.mask_pos = c * n], n).mask
    IN  [decomp_base_log          |-> seeded.decomp_base_log,
         decomp_level_count       |-> l,
         output_key_lwe_dimension |-> n,
         blocks |-> [i \in 1 .. Len(seeded.blocks) |->
                       [j \in 1 .. l |->
                          [mask |-> mask_of((i - 1) * l + (j - 1)),
                           body |-> seeded.blocks[i][j]]]]]

(***************************************************************************)
(* Ciphertext moduli: the native one (2^W) or a custom one held in a       *)
(* scalar.  CRSGLWE encryption scales a custom power-of-two modulus to the *)
(* most significant bits of the native torus.                              *)
(***************************************************************************)
CiphertextModulus_new_native == [native |-> TRUE, q |-> 0]

CiphertextModulus_try_new(q) == [native |-> FALSE, q |-> q]

is_native_modulus(ciphertext_modulus) == ciphertext_modulus.native

get_custom_modulus(ciphertext_modulus) == ciphertext_modulus.q

\* get_scaling_to_native_torus: 1 for the native modulus, 2^W / q otherwise.
get_scaling_to_native_torus(ciphertext_modulus) ==
    IF ciphertext_modulus.native THEN 1 ELSE TwoPowW \div ciphertext_modulus.q

\* fill_slice_with_random_mask_custom_mod: n uniform scalars below the modulus.
fill_slice_with_random_mask_custom_mod(generator, n, ciphertext_modulus) ==
    LET m == fill_slice_with_random_mask(generator, n)
    IN  [mask      |-> IF ciphertext_modulus.native THEN m.mask
                       ELSE [t \in 1 .. n |-> m.mask[t] % ciphertext_modulus.q],
         generator |-> m.generator]

\* unsigned_torus_slice_wrapping_add_random_noise_custom_mod_assign: one noise
\* sample is added to every element; a zero dispersion gives zero noise.
slice_wrapping_add_random_noise_custom_mod_assign(slice, noise_parameters, generator) ==
    [slice     |-> [t \in 1 .. Len(slice) |->
                      wrapping_add(slice[t],
                          IF noise_parameters = 0 THEN 0
                          ELSE NoiseSample(generator.noise_seed,
                                           generator.noise_pos + t - 1))],
     generator |-> [generator EXCEPT !.noise_pos = generator.noise_pos + Len(slice)]]

slice_wrapping_scalar_mul_assign(slice, scalar) ==
    [t \in 1 .. Len(slice) |-> wrapping_mul(slice[t], scalar)]

slice_wrapping_scalar_div_assign(slice, scalar) ==
    [t \in 1 .. Len(slice) |-> slice[t] \div scalar]

(***************************************************************************)
(* Polynomials modulo X^N + 1: sequences of N scalars, constant term first.*)
(***************************************************************************)
RECURSIVE wrapping_sum(_, _)
wrapping_sum(f, n) ==
    IF n = 0 THEN 0 ELSE wrapping_add(wrapping_sum(f, n - 1), f[n])

\* Coefficient t (from 1) of the negacyclic product lhs * rhs.
polynomial_wrapping_mul_coefficient(lhs, rhs, t) ==
    LET n == Len(lhs)
        term(i) == IF i <= t
                   THEN wrapping_mul(lhs[i], rhs[t - i + 1])
                   ELSE wrapping_neg(wrapping_mul(lhs[i], rhs[t - i + 1 + n]))
    IN  wrapping_sum([i \in 1 .. n |-> term(i)], n)

\* The multisum sum_i list1[i] * list2[i], a polynomial of size p.
polynomial_wrapping_multisum(poly_list1, poly_list2, p) ==
    [t \in 1 .. p |->
        wrapping_sum([i \in 1 .. Len(poly_list1) |->
                         polynomial_wrapping_mul_coefficient(
                             poly_list1[i], poly_list2[i], t)],
                     Len(poly_list1))]

polynomial_wrapping_add_multisum_assign(output, poly_list1, poly_list2) ==
    LET ms == polynomial_wrapping_multisum(poly_list1, poly_list2, Len(output))
    IN  [t \in 1 .. Len(output) |-> wrapping_add(output[t], ms[t])]

polynomial_wrapping_sub_multisum_assign(output, poly_list1, poly_list2) ==
    LET ms == polynomial_wrapping_multisum(poly_list1, poly_list2, Len(output))
    IN  [t \in 1 .. Len(output) |-> wrapping_sub(output[t], ms[t])]

\* slice.split_into(n): n consecutive chunks of Len / n elements.
split_into(slice, n) ==
    LET size == Len(slice) \div n
    IN  [c \in 1 .. n |-> SubSeq(slice, (c - 1) * size + 1, c * size)]

\* PolynomialList::from_container(container, PolynomialSize(p)).
PolynomialList_from_container(container, p) == split_into(container, Len(container) \div p)

\* The concatenation of the chunks of a split, in order.
RECURSIVE concat_chunks(_, _)
concat_chunks(chunks, n) ==
    IF n = 0 THEN << >> ELSE concat_chunks(chunks, n - 1) \o chunks[n]

(***************************************************************************)
(* CRSGLWE entities: flat buffers with their shape parameters.             *)
(***************************************************************************)
\* CRSGlweSize(k + d, d) as a pair, and its two conversions.
CRSGlweSize(size, codim) == << size, codim >>

to_crs_glwe_dimension(crs_glwe_size) == crs_glwe_size[1] - crs_glwe_size[2]

to_crs_glwe_codimension(crs_glwe_size) == crs_glwe_size[2]

CRSGlweSecretKey_from_container(container, polynomial_size, codim) ==
    [data |-> container, polynomial_size |-> polynomial_size, codimension |-> codim]

CRSGlweSecretKey_new_empty_key(value, crs_glwe_dimension, crs_glwe_codimension, polynomial_size) ==
    CRSGlweSecretKey_from_container(
        [t \in 1 .. crs_glwe_dimension * polynomial_size * crs_glwe_codimension |-> value],
        polynomial_size, crs_glwe_codimension)

\* CRSGlweSecretKey::crs_glwe_dimension
crs_glwe_dimension(crs_glwe_secret_key) ==
    (Len(crs_glwe_secret_key.data) \div crs_glwe_secret_key.polynomial_size)
        \div crs_glwe_secret_key.codimension

crs_glwe_ciphertext_size(crs_glwe_size, polynomial_size) ==
    crs_glwe_size[1] * polynomial_size

crs_glwe_ciphertext_mask_size(dimension, polynomial_size) ==
    dimension * polynomial_size

CRSGlweCiphertext_from_container(container, polynomial_size, ciphertext_modulus, cod) ==
    [data               |-> container,
     codim              |-> cod,
     polynomial_size    |-> polynomial_size,
     ciphertext_modulus |-> ciphertext_modulus]

CRSGlweCiphertext_new(fill_with, size, polynomial_size, ciphertext_modulus) ==
    CRSGlweCiphertext_from_container(
        [t \in 1 .. crs_glwe_ciphertext_size(size, polynomial_size) |-> fill_with],
        polynomial_size, ciphertext_modulus, size[2])

CRSGlweMask_from_container(container, polynomial_size, ciphertext_modulus) ==
    [data               |-> container,
     polynomial_size    |-> polynomial_size,
     ciphertext_modulus |-> ciphertext_modulus]

CRSGlweBody_from_container(container, polynomial_size, ciphertext_modulus) ==
    [data               |-> container,
     polynomial_size    |-> polynomial_size,
     ciphertext_modulus |-> ciphertext_modulus]

\* CRSGlweCiphertext::crs_glwe_size
crs_glwe_size(ct) == CRSGlweSize(Len(ct.data) \div ct.polynomial_size, ct.codim)

\* Mutant: the buffer is split at the dimension, not at dimension * N.
get_mask_and_body_split_at_dimension(ct) ==
    LET at == to_crs_glwe_dimension(crs_glwe_size(ct))
    IN  [mask |-> CRSGlweMask_from_container(
                      SubSeq(ct.data, 1, at), ct.polynomial_size,
                      ct.ciphertext_modulus),
         body |-> CRSGlweBody_from_container(
                      SubSeq(ct.data, at + 1, Len(ct.data)), ct.polynomial_size,
                      ct.ciphertext_modulus)]

\* get_mask_and_body / get_mut_mask_and_body: the buffer split at the mask size.
get_mask_and_body(ct) ==
    LET at == crs_glwe_ciphertext_mask_size(
                  to_crs_glwe_dimension(crs_glwe_size(ct)), ct.polynomial_size)
    IN  [mask |-> CRSGlweMask_from_container(
                      SubSeq(ct.data, 1, at), ct.polynomial_size,
                      ct.ciphertext_modulus),
         body |-> CRSGlweBody_from_container(
                      SubSeq(ct.data, at + 1, Len(ct.data)), ct.polynomial_size,
                      ct.ciphertext_modulus)]

\* The assertions of CRSGlweCiphertext::from_container and of
\* CRSGlweSecretKey::from_container: a non-empty container whose length the
\* polynomial size divides (the remainder by a zero polynomial size panics).
crs_glwe_from_container_accepts(container, polynomial_size) ==
    /\ Len(container) > 0
    /\ polynomial_size # 0
    /\ Len(container) % polynomial_size = 0

\* The mask size the accessors split at is in the buffer: the subtraction of
\* to_crs_glwe_dimension does not underflow (an underflow panics, or wraps to
\* an index beyond the buffer, which the slicing refuses).
crs_glwe_split_in_range(ct) ==
    /\ to_crs_glwe_dimension(crs_glwe_size(ct)) >= 0
    /\ crs_glwe_ciphertext_mask_size(
           to_crs_glwe_dimension(crs_glwe_size(ct)), ct.polynomial_size)
         <= Len(ct.data)

\* CRSGlweCiphertext::get_mask / get_mut_mask
get_mask(ct) ==
    CRSGlweMask_from_container(
        SubSeq(ct.data, 1, crs_glwe_ciphertext_mask_size(
                               to_crs_glwe_dimension(crs_glwe_size(ct)),
                               ct.polynomial_size)),
        ct.polynomial_size, ct.ciphertext_modulus)

\* CRSGlweCiphertext::get_body / get_mut_body
get_body(ct) ==
    CRSGlweBody_from_container(
        SubSeq(ct.data,
               crs_glwe_ciphertext_mask_size(
                   to_crs_glwe_dimension(crs_glwe_size(ct)), ct.polynomial_size) + 1,
               Len(ct.data)),
        ct.polynomial_size, ct.ciphertext_modulus)

\* CRSGlweCiphertext::as_view / as_mut_view: the same fields over a borrowed buffer.
crs_glwe_as_view(ct) ==
    [data               |-> ct.data,
     codim              |-> ct.codim,
     polynomial_size    |-> ct.polynomial_size,
     ciphertext_modulus |-> ct.ciphertext_modulus]

\* CRSGlweSecretKey::crs_glwe_dimension divides by the codimension.
crs_glwe_dimension_in_range(crs_glwe_secret_key) ==
    crs_glwe_secret_key.codimension # 0

(***************************************************************************)
(* CRSLWE ciphertexts: a flat buffer of n + d scalars with its codimension.*)
(***************************************************************************)
\* CRSLweSize(n + d, d) as a pair, and its conversion to the dimension.
CRSLweSize(size, codim) == << size, codim >>

to_crs_lwe_dimension(crs_lwe_size) == crs_lwe_size[1] - crs_lwe_size[2]

\* The assertion of CRSLweCiphertext::from_container.
crs_lwe_from_container_accepts(container) == Len(container) > 0

CRSLweCiphertext_from_container(container, ciphertext_modulus, cod) ==
    [data               |-> container,
     ciphertext_modulus |-> ciphertext_modulus,
     codim              |-> cod]

\* Mutant: the codimension is taken from the size.
CRSLweCiphertext_new_codim_of_size(fill_with, crs_lwe_size, ciphertext_modulus, cod) ==
    CRSLweCiphertext_from_container(
        [t \in 1 .. crs_lwe_size[1] |-> fill_with], ciphertext_modulus,
        crs_lwe_size[2])

\* CRSLweCiphertextOwned::new: the buffer has crs_lwe_size.0 scalars and the
\* codimension is the argument cod.
CRSLweCiphertext_new(fill_with, crs_lwe_size, ciphertext_modulus, cod) ==
    CRSLweCiphertext_from_container(
        [t \in 1 .. crs_lwe_size[1] |-> fill_with], ciphertext_modulus, cod)

\* CRSLweCiphertext::crs_lwe_size
crs_lwe_size(ct) == CRSLweSize(Len(ct.data), ct.codim)

crs_lwe_split_in_range(ct) ==
    /\ to_crs_lwe_dimension(crs_lwe_size(ct)) >= 0
    /\ to_crs_lwe_dimension(crs_lwe_size(ct)) <= Len(ct.data)

\* CRSLweCiphertext::get_mask_and_body / get_mut_mask_and_body
crs_lwe_get_mask_and_body(ct) ==
    LET index == to_crs_lwe_dimension(crs_lwe_size(ct))
    IN  [mask |-> [data |-> SubSeq(ct.data, 1, index),
                   ciphertext_modulus |-> ct.ciphertext_modulus],
         body |-> [data |-> SubSeq(ct.data, index + 1, Len(ct.data)),
                   ciphertext_modulus |-> ct.ciphertext_modulus]]

\* CRSLweCiphertext::get_mask / get_mut_mask
crs_lwe_get_mask(ct) ==
    [data |-> SubSeq(ct.data, 1, to_crs_lwe_dimension(crs_lwe_size(ct))),
     ciphertext_modulus |-> ct.ciphertext_modulus]

\* CRSLweCiphertext::get_body / get_mut_body
crs_lwe_get_body(ct) ==
    [data |-> SubSeq(ct.data, to_crs_lwe_dimension(crs_lwe_size(ct)) + 1,
                     crs_lwe_size(ct)[1]),
     ciphertext_modulus |-> ct.ciphertext_modulus]

\* CRSLweCiphertext::as_view / as_mut_view go through from_container.
crs_lwe_as_view(ct) ==
    CRSLweCiphertext_from_container(ct.data, ct.ciphertext_modulus, ct.codim)

(***************************************************************************)
(* CRSGLWE encryption and decryption.                                      *)
(***************************************************************************)
\* Mutant: only the mask is scaled to the native torus.
scale_to_native_torus_mask_only(mask, body, ciphertext_modulus) ==
    IF ~is_native_modulus(ciphertext_modulus)
    THEN LET torus_scaling == get_scaling_to_native_torus(ciphertext_modulus)
         IN  [mask |-> slice_wrapping_scalar_mul_assign(mask, torus_scaling),
              body |-> body]
    ELSE [mask |-> mask, body |-> body]

\* Mutant: the body is multiplied by half the scaling factor.
scale_to_native_torus_body_by_half(mask, body, ciphertext_modulus) ==
    IF ~is_native_modulus(ciphertext_modulus)
    THEN LET torus_scaling == get_scaling_to_native_torus(ciphertext_modulus)
         IN  [mask |-> slice_wrapping_scalar_mul_assign(mask, torus_scaling),
              body |-> slice_wrapping_scalar_mul_assign(body, torus_scaling \div 2)]
    ELSE [mask |-> mask, body |-> body]

\* For a non-native modulus the mask and the body are multiplied by the
\* scaling factor, once the mask is drawn and the noise added.
scale_to_native_torus(mask, body, ciphertext_modulus) ==
    IF ~is_native_modulus(ciphertext_modulus)
    THEN LET torus_scaling == get_scaling_to_native_torus(ciphertext_modulus)
         IN  [mask |-> slice_wrapping_scalar_mul_assign(mask, torus_scaling),
              body |-> slice_wrapping_scalar_mul_assign(body, torus_scaling)]
    ELSE [mask |-> mask, body |-> body]

\* k, d and p as both functions recompute them from the buffer lengths.
crs_glwe_recomputed_shape(key_len, mask_len, body_len) ==
    LET k == key_len \div body_len
        d == key_len \div mask_len
    IN  [k |-> k, d |-> d, p |-> key_len \div (k * d)]

\* fill_crs_glwe_mask_and_body_for_encryption_assign, once the moduli of the
\* mask and body views were found equal: the two views after the call, the
\* generator, and (for inspection) the recomputed shape and the noise added.
fill_crs_glwe_mask_and_body_for_encryption_assign(crs_glwe_secret_key, output_mask, output_body, noise_parameters, generator) ==
    LET ciphertext_modulus == output_body.ciphertext_modulus
        key_ref == crs_glwe_secret_key.data
        filled == fill_slice_with_random_mask_custom_mod(
                      generator, Len(output_mask.data), ciphertext_modulus)
        noised == slice_wrapping_add_random_noise_custom_mod_assign(
                      output_body.data, noise_parameters, filled.generator)
        scaled == scale_to_native_torus(filled.mask, noised.slice, ciphertext_modulus)
        mask_mut == scaled.mask
        body_mut == scaled.body
        shape == crs_glwe_recomputed_shape(Len(key_ref), Len(mask_mut), Len(body_mut))
        keys == split_into(key_ref, shape.d)
        bodies == split_into(body_mut, shape.d)
        mask_list == PolynomialList_from_container(
                         mask_mut, output_mask.polynomial_size)
        summed == [j \in 1 .. shape.d |->
                      polynomial_wrapping_add_multisum_assign(
                          bodies[j], mask_list,
                          PolynomialList_from_container(keys[j], shape.p))]
    IN  [mask      |-> mask_mut,
         body      |-> concat_chunks(summed, shape.d),
         generator |-> noised.generator,
         shape     |-> shape,
         noise     |-> [t \in 1 .. Len(output_body.data) |->
                          wrapping_sub(noised.slice[t], output_body.data[t])]]

\* Mutant: the moduli of the two views are not compared.
fill_crs_glwe_moduli_unchecked(output_mask, output_body) == TRUE

\* The assertion at the head of fill_crs_glwe_mask_and_body_for_encryption_assign.
fill_crs_glwe_moduli_match(output_mask, output_body) ==
    output_mask.ciphertext_modulus = output_body.ciphertext_modulus

\* The two assertions at the head of encrypt_crs_glwe_ciphertext_assign.
encrypt_crs_glwe_ciphertext_assertions(crs_glwe_secret_key, output) ==
    /\ to_crs_glwe_dimension(crs_glwe_size(output))
         = crs_glwe_dimension(crs_glwe_secret_key)
    /\ output.polynomial_size = crs_glwe_secret_key.polynomial_size

\* The two assertions at the head of decrypt_crs_glwe_ciphertext.
decrypt_crs_glwe_ciphertext_assertions(crs_glwe_secret_key, input_crs_glwe_ciphertext) ==
    /\ crs_glwe_dimension(crs_glwe_secret_key)
         = to_crs_glwe_dimension(crs_glwe_size(input_crs_glwe_ciphertext))
    /\ crs_glwe_secret_key.polynomial_size = input_crs_glwe_ciphertext.polynomial_size

\* output_plaintext_list.as_mut().copy_from_slice(body_ref) panics unless the
\* two slices have the same length.
copy_from_slice_fits(plaintext_count, input_crs_glwe_ciphertext) ==
    plaintext_count = Len(get_mask_and_body(input_crs_glwe_ciphertext).body.data)

\* encrypt_crs_glwe_ciphertext_assign, once its two assertions have passed.
encrypt_crs_glwe_ciphertext_assign(crs_glwe_secret_key, output, noise_parameters, generator) ==
    LET mb == get_mask_and_body(output)
        r == fill_crs_glwe_mask_and_body_for_encryption_assign(
                 crs_glwe_secret_key, mb.mask, mb.body, noise_parameters, generator)
    IN  [output    |-> [output EXCEPT !.data = r.mask \o r.body],
         generator |-> r.generator,
         shape     |-> r.shape,
         noise     |-> r.noise]

\* Mutant: the final division by the scaling factor is left out.
decrypt_crs_glwe_ciphertext_unscaled(crs_glwe_secret_key, input_crs_glwe_ciphertext) ==
    LET mb == get_mask_and_body(input_crs_glwe_ciphertext)
        key_ref == crs_glwe_secret_key.data
        shape == crs_glwe_recomputed_shape(Len(key_ref), Len(mb.mask.data),
                                           Len(mb.body.data))
        keys == split_into(key_ref, shape.d)
        mask_list == PolynomialList_from_container(mb.mask.data, shape.p)
        output_pol_list == split_into(mb.body.data, shape.d)
        subtracted == [j \in 1 .. shape.d |->
                          polynomial_wrapping_sub_multisum_assign(
                              output_pol_list[j], mask_list,
                              PolynomialList_from_container(keys[j], shape.p))]
    IN  concat_chunks(subtracted, shape.d)

\* The output plaintext list of decrypt_crs_glwe_ciphertext once the multisum
\* of the mask and the key has been subtracted from the copied body, before
\* the division by the scaling factor.
decrypt_crs_glwe_ciphertext_before_division(crs_glwe_secret_key, input_crs_glwe_ciphertext) ==
    LET mb == get_mask_and_body(input_crs_glwe_ciphertext)
        key_ref == crs_glwe_secret_key.data
        shape == crs_glwe_recomputed_shape(Len(key_ref), Len(mb.mask.data),
                                           Len(mb.body.data))
        keys == split_into(key_ref, shape.d)
        mask_list == PolynomialList_from_container(mb.mask.data, shape.p)
        output_pol_list == split_into(mb.body.data, shape.d)
    IN  concat_chunks(
            [j \in 1 .. shape.d |->
                polynomial_wrapping_sub_multisum_assign(
                    output_pol_list[j], mask_list,
                    PolynomialList_from_container(keys[j], shape.p))],
            shape.d)

\* decrypt_crs_glwe_ciphertext, once its two assertions have passed: the
\* content of the output plaintext list.
decrypt_crs_glwe_ciphertext(crs_glwe_secret_key, input_crs_glwe_ciphertext) ==
    LET ciphertext_modulus == input_crs_glwe_ciphertext.ciphertext_modulus
        mb == get_mask_and_body(input_crs_glwe_ciphertext)
        key_ref == crs_glwe_secret_key.data
        shape == crs_glwe_recomputed_shape(Len(key_ref), Len(mb.mask.data),
                                           Len(mb.body.data))
        keys == split_into(key_ref, shape.d)
        mask_list == PolynomialList_from_container(mb.mask.data, shape.p)
        output_pol_list == split_into(mb.body.data, shape.d)
        subtracted == [j \in 1 .. shape.d |->
                          polynomial_wrapping_sub_multisum_assign(
                              output_pol_list[j], mask_list,
                              PolynomialList_from_container(keys[j], shape.p))]
        output_mut == concat_chunks(subtracted, shape.d)
    IN  IF ~is_native_modulus(ciphertext_modulus)
        THEN slice_wrapping_scalar_div_assign(
                 output_mut, get_scaling_to_native_torus(ciphertext_modulus))
        ELSE output_mut

(***************************************************************************)
(* Arithmetic modulo a custom modulus q on scalars, and on polynomials     *)
(* modulo X^N + 1 (sequences of N scalars, constant term first).           *)
(***************************************************************************)
wrapping_neg_custom_mod(a, q) == IF a = 0 THEN a ELSE wrapping_sub(q, a)

wrapping_sub_custom_mod(a, b, q) ==
    IF a >= b THEN a - b ELSE wrapping_add(wrapping_sub(a, b), q)

wrapping_add_custom_mod(a, b, q) ==
    wrapping_sub_custom_mod(a, wrapping_neg_custom_mod(b, q), q)

\* The product is formed in u128 and reduced.
wrapping_mul_custom_mod(a, b, q) == cast_from((a * b) % q)

Polynomial_new(fill_with, polynomial_size) ==
    [t \in 1 .. polynomial_size |-> fill_with]

polynomial_wrapping_add_assign(lhs, rhs) ==
    [t \in 1 .. Len(lhs) |-> wrapping_add(lhs[t], rhs[t])]

polynomial_wrapping_add_assign_custom_mod(lhs, rhs, q) ==
    [t \in 1 .. Len(lhs) |-> wrapping_add_custom_mod(lhs[t], rhs[t], q)]

polynomial_wrapping_sub_assign_custom_mod(lhs, rhs, q) ==
    [t \in 1 .. Len(lhs) |-> wrapping_sub_custom_mod(lhs[t], rhs[t], q)]

polynomial_wrapping_scalar_mul_assign_custom_mod(output, scalar, q) ==
    [t \in 1 .. Len(output) |-> wrapping_mul_custom_mod(output[t], scalar, q)]

\* apply_automorphism_assign_custom_mod: the polynomial with X replaced by
\* X^power (power odd), reduced modulo X^N + 1 and q.  X^(t-1) goes to the
\* position image(t), negated when its exponent passes N an odd number of times.
apply_automorphism_assign_custom_mod(pol, power, q) ==
    LET n == Len(pol)
        exponent(t) == ((t - 1) * power) % (2 * n)
        image(t) == (exponent(t) % n) + 1
        src(u) == CHOOSE t \in 1 .. n : image(t) = u
    IN  [u \in 1 .. n |->
            IF exponent(src(u)) >= n
            THEN wrapping_neg_custom_mod(pol[src(u)], q)
            ELSE pol[src(u)]]

\* polynomial_wrapping_monic_monomial_mul_assign_custom_mod: pol * X^degree.
polynomial_wrapping_monic_monomial_mul_assign_custom_mod(pol, degree, q) ==
    LET n == Len(pol)
    IN  [u \in 1 .. n |->
            IF u - 1 >= degree % n
            THEN (IF (degree \div n) % 2 = 0
                  THEN pol[u - (degree % n)]
                  ELSE wrapping_neg_custom_mod(pol[u - (degree % n)], q))
            ELSE (IF (degree \div n) % 2 = 0
                  THEN wrapping_neg_custom_mod(pol[u - (degree % n) + n], q)
                  ELSE pol[u - (degree % n) + n])]

RECURSIVE sum_custom_mod(_, _, _)
sum_custom_mod(f, n, q) ==
    IF n = 0 THEN 0 ELSE wrapping_add_custom_mod(sum_custom_mod(f, n - 1, q), f[n], q)

\* The negacyclic product lhs * rhs modulo q.
polynomial_wrapping_mul_custom_mod(lhs, rhs, q) ==
    LET n == Len(lhs)
        term(i, t) ==
            IF i <= t
            THEN wrapping_mul_custom_mod(lhs[i], rhs[t - i + 1], q)
            ELSE wrapping_neg_custom_mod(
                     wrapping_mul_custom_mod(lhs[i], rhs[t - i + 1 + n], q), q)
    IN  [t \in 1 .. n |-> sum_custom_mod([i \in 1 .. n |-> term(i, t)], n, q)]

\* sum over i of list1[i] * list2[i] modulo q, a polynomial of size p.
polynomial_wrapping_multisum_custom_mod(poly_list1, poly_list2, p, q) ==
    [t \in 1 .. p |->
        sum_custom_mod([i \in 1 .. Len(poly_list1) |->
                           polynomial_wrapping_mul_custom_mod(
                               poly_list1[i], poly_list2[i], q)[t]],
                       Len(poly_list1), q)]

(***************************************************************************)
(* GLWE ciphertexts modulo q and the trace-packing keyswitch key.  A GLWE  *)
(* ciphertext is its polynomial list: the mask polynomials, then the body. *)
(* The keyswitch key is noise free and its gadget exact, so a keyswitch    *)
(* preserves the phase: the noise of the packing is that of its inputs.    *)
(***************************************************************************)
RECURSIVE log2(_)
log2(n) == IF n <= 1 THEN 0 ELSE 1 + log2(n \div 2)

GlweCiphertext_new(fill_with, glwe_size, polynomial_size) ==
    [c \in 1 .. glwe_size |-> Polynomial_new(fill_with, polynomial_size)]

\* generate_tpksk_output_glwe_secret_key: key bit t = p * N + i of the LWE
\* key goes to coefficient 0 of polynomial p when i = 0 and, negated modulo
\* q, to coefficient N - i otherwise; the other coefficients are 0.
generate_tpksk_output_glwe_secret_key(lwe_secret_key, glwe_dimension, polynomial_size, q) ==
    [p \in 1 .. glwe_dimension |->
        [u \in 1 .. polynomial_size |->
            LET t == IF u = 1 THEN (p - 1) * polynomial_size + 1
                     ELSE (p - 1) * polynomial_size + polynomial_size - u + 2
            IN  IF t > Len(lwe_secret_key) THEN 0
                ELSE IF u = 1 THEN lwe_secret_key[t]
                ELSE wrapping_neg_custom_mod(lwe_secret_key[t], q)]]

\* encrypt_glwe_ciphertext without noise: body = mask . key + plaintext.
encrypt_glwe_ciphertext_custom_mod(glwe_secret_key, encoded, generator, q) ==
    LET k == Len(glwe_secret_key)
        n == Len(encoded)
        m == fill_slice_with_random_mask(generator, k * n)
        mask == [c \in 1 .. k |-> [t \in 1 .. n |-> m.mask[(c - 1) * n + t] % q]]
        mask_key == polynomial_wrapping_multisum_custom_mod(mask, glwe_secret_key, n, q)
    IN  [ct        |-> mask \o << polynomial_wrapping_add_assign_custom_mod(
                                      mask_key, encoded, q) >>,
         generator |-> m.generator]

\* One GLWE keyswitch key: for every polynomial of the input key, a GLWE
\* encryption of it under the output key.
RECURSIVE generate_glwe_keyswitch_key(_, _, _, _, _)
generate_glwe_keyswitch_key(input_key, output_key, generator, q, upto) ==
    IF upto = 0 THEN [key |-> << >>, generator |-> generator]
    ELSE LET before == generate_glwe_keyswitch_key(input_key, output_key, generator,
                                                   q, upto - 1)
             one == encrypt_glwe_ciphertext_custom_mod(output_key, input_key[upto],
                                                       before.generator, q)
         IN  [key |-> Append(before.key, one.ct), generator |-> one.generator]

\* generate_lwe_trace_packing_keyswitch_key: stage l (from 0) switches from
\* the key with X replaced by X^(2^(l+1) + 1) back to the key itself.
RECURSIVE generate_lwe_trace_packing_keyswitch_key(_, _, _, _)
generate_lwe_trace_packing_keyswitch_key(glwe_secret_key, generator, q, stages) ==
    IF stages = 0 THEN [stages |-> << >>, generator |-> generator]
    ELSE LET before == generate_lwe_trace_packing_keyswitch_key(
                           glwe_secret_key, generator, q, stages - 1)
             automorphed == [p \in 1 .. Len(glwe_secret_key) |->
                                apply_automorphism_assign_custom_mod(
                                    glwe_secret_key[p], 2 ^ stages + 1, q)]
             one == generate_glwe_keyswitch_key(automorphed, glwe_secret_key,
                                                before.generator, q,
                                                Len(glwe_secret_key))
         IN  [stages    |-> Append(before.stages, one.key),
              generator |-> one.generator]

\* keyswitch_glwe_ciphertext: (0, .., 0, body) - sum over p of mask_p * key_p.
keyswitch_glwe_ciphertext(glwe_ksk, input, q) ==
    LET k == Len(glwe_ksk)
        n == Len(input[1])
        mask == SubSeq(input, 1, k)
        column(c) == polynomial_wrapping_multisum_custom_mod(
                         mask, [p \in 1 .. k |-> glwe_ksk[p][c]], n, q)
    IN  [c \in 1 .. k + 1 |->
            polynomial_wrapping_sub_assign_custom_mod(
                IF c = k + 1 THEN input[c] ELSE Polynomial_new(0, n), column(c), q)]

\* decrypt_glwe_ciphertext modulo q: body - mask . key.
decrypt_glwe_ciphertext_custom_mod(glwe_secret_key, glwe, q) ==
    LET k == Len(glwe_secret_key)
        n == Len(glwe[1])
    IN  polynomial_wrapping_sub_assign_custom_mod(
            glwe[k + 1],
            polynomial_wrapping_multisum_custom_mod(
                SubSeq(glwe, 1, k), glwe_secret_key, n, q), q)

\* encrypt_lwe_ciphertext_list modulo q: ciphertext j takes the next
\* lwe_dimension mask samples and the next noise sample.
encrypt_lwe_ciphertext_list_custom_mod(lwe_secret_key, encoded, generator, q) ==
    LET n == Len(lwe_secret_key)
        mask(j) == [t \in 1 .. n |->
                       MaskSample(generator.mask_seed,
                                  generator.mask_pos + (j - 1) * n + t - 1) % q]
        noise(j) == LET e == NoiseSample(generator.noise_seed,
                                         generator.noise_pos + j - 1)
                    IN  IF e = TwoPowW - 1 THEN q - 1 ELSE e
        mask_key(j) == sum_custom_mod(
                           [t \in 1 .. n |->
                               wrapping_mul_custom_mod(mask(j)[t], lwe_secret_key[t], q)],
                           n, q)
    IN  [j \in 1 .. Len(encoded) |->
            [mask |-> mask(j),
             body |-> wrapping_add_custom_mod(
                          wrapping_add_custom_mod(mask_key(j), noise(j), q),
                          encoded[j], q)]]

\* Mutant: the parity of the modulus is not looked at.
trace_packing_assertions_without_parity(tpksk, output, input_list, index_list) ==
    /\ Len(input_list.cts) <= output.polynomial_size
    /\ Len(input_list.cts) = Len(index_list)
    /\ input_list.lwe_size = tpksk.input_lwe_size
    /\ \A x \in 1 .. Len(index_list) : index_list[x] < output.polynomial_size
    /\ output.polynomial_size = tpksk.polynomial_size
    /\ Len(output.data) = tpksk.output_glwe_size
    /\ input_list.ciphertext_modulus = tpksk.ciphertext_modulus
    /\ output.ciphertext_modulus = tpksk.ciphertext_modulus
    /\ ~ is_native_modulus(input_list.ciphertext_modulus)

(***************************************************************************)
(* trace_packing_keyswitch_lwe_ciphertext_list_into_glwe_ciphertext.       *)
(***************************************************************************)
\* The assertions at the head of the call.
trace_packing_assertions(tpksk, output, input_list, index_list) ==
    /\ Len(input_list.cts) <= output.polynomial_size
    /\ Len(input_list.cts) = Len(index_list)
    /\ input_list.lwe_size = tpksk.input_lwe_size
    /\ \A x \in 1 .. Len(index_list) : index_list[x] < output.polynomial_size
    /\ output.polynomial_size = tpksk.polynomial_size
    /\ Len(output.data) = tpksk.output_glwe_size
    /\ input_list.ciphertext_modulus = tpksk.ciphertext_modulus
    /\ output.ciphertext_modulus = tpksk.ciphertext_modulus
    /\ ~ is_native_modulus(input_list.ciphertext_modulus)
    /\ cast_from(get_custom_modulus(input_list.ciphertext_modulus)) % 2 = 1

\* The slot ciphertext index1 (from 0) after the inputs index2 <= upto have
\* been scattered: an input placed at index1 adds its mask coefficient t at
\* flattened mask position t and its body at coefficient 0 of the body.
RECURSIVE initial_glwe_ciphertext(_, _, _, _, _, _, _)
initial_glwe_ciphertext(index1, cts, index_list, glwe_size, polynomial_size, q, upto) ==
    IF upto = 0 THEN GlweCiphertext_new(0, glwe_size, polynomial_size)
    ELSE LET glwe_ct == initial_glwe_ciphertext(index1, cts, index_list, glwe_size,
                                                polynomial_size, q, upto - 1)
             lwe_ct == cts[upto]
             position(index3, index4) == (index3 - 1) * polynomial_size + index4
         IN  IF index1 # index_list[upto] THEN glwe_ct
             ELSE [index3 \in 1 .. glwe_size |->
                      [index4 \in 1 .. polynomial_size |->
                          IF index3 < glwe_size
                          THEN (IF position(index3, index4) <= Len(lwe_ct.mask)
                                THEN wrapping_add_custom_mod(
                                         glwe_ct[index3][index4],
                                         lwe_ct.mask[position(index3, index4)], q)
                                ELSE glwe_ct[index3][index4])
                          ELSE wrapping_add_custom_mod(
                                   glwe_ct[index3][index4],
                                   IF index4 = 1
                                   THEN wrapping_add_custom_mod(0, lwe_ct.body, q)
                                   ELSE 0, q)]]

\* Mutant: the slots are counted from 1 when compared with the indices.
initial_glwe_list_slots_from_one(cts, index_list, glwe_size, polynomial_size, q) ==
    [slot \in 1 .. polynomial_size |->
        initial_glwe_ciphertext(slot, cts, index_list, glwe_size, polynomial_size,
                                q, Len(index_list))]

\* The list of N slot ciphertexts before the first round.
initial_glwe_list(cts, index_list, glwe_size, polynomial_size, q) ==
    [slot \in 1 .. polynomial_size |->
        initial_glwe_ciphertext(slot - 1, cts, index_list, glwe_size, polynomial_size,
                                q, Len(index_list))]

\* Scalar::cast_from(q) + Scalar::ONE leaves the scalar type.
halving_scalar_overflows(q) == cast_from(q) + 1 >= TwoPowW

\* (Scalar::cast_from(q) + Scalar::ONE) / Scalar::TWO with a wrapping sum.
halving_scalar(q) == wrapping_add(cast_from(q), 1) \div 2

any_nonzero(glwe) ==
    \E c \in 1 .. Len(glwe) : \E t \in 1 .. Len(glwe[c]) : glwe[c][t] # 0

\* Mutant: the difference half is folded back without its keyswitch.
butterfly_step_without_keyswitch(list, glwe_ksk, l, i, polynomial_size, q) ==
    LET offset == polynomial_size \div (2 ^ (l + 1))
        j == offset + i
        glwe_size == Len(list[i + 1])
        zero == Polynomial_new(0, polynomial_size)
        ct_1 == [c \in 1 .. glwe_size |->
                    polynomial_wrapping_monic_monomial_mul_assign_custom_mod(
                        list[j + 1][c], offset, q)]
        scalar == halving_scalar(q)
        ct_plus == [c \in 1 .. glwe_size |->
                       polynomial_wrapping_scalar_mul_assign_custom_mod(
                           polynomial_wrapping_add_assign_custom_mod(
                               polynomial_wrapping_add_assign(zero, list[i + 1][c]),
                               ct_1[c], q),
                           scalar, q)]
        ct_minus == [c \in 1 .. glwe_size |->
                        apply_automorphism_assign_custom_mod(
                            polynomial_wrapping_scalar_mul_assign_custom_mod(
                                polynomial_wrapping_sub_assign_custom_mod(
                                    polynomial_wrapping_add_assign(zero, list[i + 1][c]),
                                    ct_1[c], q),
                                scalar, q),
                            2 ^ (l + 1) + 1, q)]
        ks_out == ct_minus
        ct_0 == [c \in 1 .. glwe_size |->
                    polynomial_wrapping_add_assign(
                        zero,
                        polynomial_wrapping_add_assign_custom_mod(
                            ct_plus[c], ks_out[c], q))]
    IN  IF any_nonzero(list[i + 1]) \/ any_nonzero(list[j + 1])
        THEN [list EXCEPT ![i + 1] = ct_0, ![j + 1] = ct_1]
        ELSE list

\* Mutant: the two halves are folded with the plain wrapping addition.
butterfly_step_plain_fold(list, glwe_ksk, l, i, polynomial_size, q) ==
    LET offset == polynomial_size \div (2 ^ (l + 1))
        j == offset + i
        glwe_size == Len(list[i + 1])
        zero == Polynomial_new(0, polynomial_size)
        ct_1 == [c \in 1 .. glwe_size |->
                    polynomial_wrapping_monic_monomial_mul_assign_custom_mod(
                        list[j + 1][c], offset, q)]
        scalar == halving_scalar(q)
        ct_plus == [c \in 1 .. glwe_size |->
                       polynomial_wrapping_scalar_mul_assign_custom_mod(
                           polynomial_wrapping_add_assign_custom_mod(
                               polynomial_wrapping_add_assign(zero, list[i + 1][c]),
                               ct_1[c], q),
                           scalar, q)]
        ct_minus == [c \in 1 .. glwe_size |->
                        apply_automorphism_assign_custom_mod(
                            polynomial_wrapping_scalar_mul_assign_custom_mod(
                                polynomial_wrapping_sub_assign_custom_mod(
                                    polynomial_wrapping_add_assign(zero, list[i + 1][c]),
                                    ct_1[c], q),
                                scalar, q),
                            2 ^ (l + 1) + 1, q)]
        ks_out == keyswitch_glwe_ciphertext(glwe_ksk, ct_minus, q)
        ct_0 == [c \in 1 .. glwe_size |->
                    polynomial_wrapping_add_assign(
                        zero,
                        polynomial_wrapping_add_assign(ct_plus[c], ks_out[c]))]
    IN  IF any_nonzero(list[i + 1]) \/ any_nonzero(list[j + 1])
        THEN [list EXCEPT ![i + 1] = ct_0, ![j + 1] = ct_1]
        ELSE list

\* One step of the butterfly: round l on the slots i and j = N / 2^(l+1) + i
\* (all from 0), with the stage-l keyswitch key.
butterfly_step(list, glwe_ksk, l, i, polynomial_size, q) ==
    LET offset == polynomial_size \div (2 ^ (l + 1))
        j == offset + i
        glwe_size == Len(list[i + 1])
        zero == Polynomial_new(0, polynomial_size)
        ct_1 == [c \in 1 .. glwe_size |->
                    polynomial_wrapping_monic_monomial_mul_assign_custom_mod(
                        list[j + 1][c], offset, q)]
        scalar == halving_scalar(q)
        ct_plus == [c \in 1 .. glwe_size |->
                       polynomial_wrapping_scalar_mul_assign_custom_mod(
                           polynomial_wrapping_add_assign_custom_mod(
                               polynomial_wrapping_add_assign(zero, list[i + 1][c]),
                               ct_1[c], q),
                           scalar, q)]
        ct_minus == [c \in 1 .. glwe_size |->
                        apply_automorphism_assign_custom_mod(
                            polynomial_wrapping_scalar_mul_assign_custom_mod(
                                polynomial_wrapping_sub_assign_custom_mod(
                                    polynomial_wrapping_add_assign(zero, list[i + 1][c]),
                                    ct_1[c], q),
                                scalar, q),
                            2 ^ (l + 1) + 1, q)]
        ks_out == keyswitch_glwe_ciphertext(glwe_ksk, ct_minus, q)
        ct_0 == [c \in 1 .. glwe_size |->
                    polynomial_wrapping_add_assign(
                        zero,
                        polynomial_wrapping_add_assign_custom_mod(
                            ct_plus[c], ks_out[c], q))]
    IN  IF any_nonzero(list[i + 1]) \/ any_nonzero(list[j + 1])
        THEN [list EXCEPT ![i + 1] = ct_0, ![j + 1] = ct_1]
        ELSE list

\* Mutant: the result is read from the last slot.
trace_packing_result_last_slot(output_data, list) ==
    [c \in 1 .. Len(output_data) |->
        polynomial_wrapping_add_assign(
            Polynomial_new(0, Len(output_data[c])), list[Len(list)][c])]

\* The end of the call: the output is filled with zero and slot 0 is added to
\* it polynomial by polynomial, with the plain wrapping addition.
trace_packing_result(output_data, list) ==
    [c \in 1 .. Len(output_data) |->
        polynomial_wrapping_add_assign(
            Polynomial_new(0, Len(output_data[c])), list[1][c])]

\* The decoding of the example: round with a one-level non-native decomposer
\* on the message bits, then (elt + delta / 2) / delta.
round_and_remove_encoding(elt, message_bits, delta, q) ==
    (closest_representable_non_native(message_bits, 1, q, elt) + (delta \div 2))
        \div delta

(***************************************************************************)
(* The memory-optimized programmable bootstrap and its scratch memory.     *)
(* The bootstrapping key is noise free: element i holds bit i of the input *)
(* LWE key, so an external product by it selects.  Sizes are counted in    *)
(* scalars.                                                                *)
(***************************************************************************)
\* The scratch one CMux takes: the rotated copy of the accumulator and the
\* FFT engine's scratch for one polynomial.
cmux_scratch(glwe_size, polynomial_size) ==
    glwe_size * polynomial_size + polynomial_size

\* programmable_bootstrap_lwe_ciphertext_mem_optimized_requirement: the local
\* accumulator, then the scratch of one CMux.
programmable_bootstrap_lwe_ciphertext_mem_optimized_requirement(glwe_size, polynomial_size) ==
    glwe_size * polynomial_size + cmux_scratch(glwe_size, polynomial_size)

\* ComputationBuffers::new followed by resize(capacity): zeroed memory.
ComputationBuffers_resize(capacity) == [k \in 1 .. capacity |-> 0]

\* The switch of a scalar to the modulus 2N of the monomial exponents.
pbs_modulus_switch(x, polynomial_size) ==
    divide_round_to_u128(x * 2 * polynomial_size, TwoPowW) % (2 * polynomial_size)

\* pol * X^degree in the negacyclic ring, 0 <= degree < 2N.
polynomial_wrapping_monic_monomial_mul(pol, degree) ==
    LET n == Len(pol)
    IN  [u \in 1 .. n |->
            LET e == (u - 1 - degree) % (2 * n)
            IN  IF e < n THEN pol[e + 1] ELSE wrapping_neg(pol[e - n + 1])]

\* Every polynomial of a GLWE ciphertext multiplied by X^degree.
glwe_monic_monomial_mul(glwe, degree) ==
    [c \in 1 .. Len(glwe) |-> polynomial_wrapping_monic_monomial_mul(glwe[c], degree)]

\* The start of the blind rotation: the accumulator divided by X^b, b the
\* switched body of the input.
blind_rotate_init(acc, lwe_in, polynomial_size) ==
    LET b == pbs_modulus_switch(lwe_in.body, polynomial_size)
    IN  glwe_monic_monomial_mul(acc, (2 * polynomial_size - b) % (2 * polynomial_size))

\* One CMux of the blind rotation: ct0 + bsk_i * (X^a_i * ct0 - ct0).
cmux(ct0, bsk_element, lwe_mask_element, polynomial_size) ==
    LET ct1 == glwe_monic_monomial_mul(
                   ct0, pbs_modulus_switch(lwe_mask_element, polynomial_size))
    IN  [c \in 1 .. Len(ct0) |->
            [u \in 1 .. polynomial_size |->
                wrapping_add(ct0[c][u],
                    wrapping_mul(bsk_element, wrapping_sub(ct1[c][u], ct0[c][u])))]]

\* extract_lwe_sample_from_glwe_ciphertext at coefficient 0: of every mask
\* polynomial the constant coefficient, then the others reversed and negated;
\* the body is the constant coefficient of the body polynomial.
extract_lwe_sample_from_glwe_ciphertext(glwe, polynomial_size) ==
    LET glwe_dimension == Len(glwe) - 1
    IN  [mask |-> [t \in 1 .. glwe_dimension * polynomial_size |->
                     LET c == ((t - 1) \div polynomial_size) + 1
                         u == (t - 1) % polynomial_size
                     IN  IF u = 0 THEN glwe[c][1]
                         ELSE wrapping_neg(glwe[c][polynomial_size - u + 1])],
         body |-> glwe[Len(glwe)][1]]

\* LweCiphertext::new(fill_with, lwe_size)
LweCiphertext_new(fill_with, lwe_size) ==
    [mask |-> [t \in 1 .. lwe_size - 1 |-> fill_with], body |-> fill_with]

\* The blind rotation over the key elements upto + 1 .. n.
RECURSIVE blind_rotate_from(_, _, _, _, _)
blind_rotate_from(local_accumulator, bsk, lwe_in, polynomial_size, upto) ==
    IF upto >= Len(bsk) THEN local_accumulator
    ELSE blind_rotate_from(
             cmux(local_accumulator, bsk[upto + 1], lwe_in.mask[upto + 1],
                  polynomial_size),
             bsk, lwe_in, polynomial_size, upto + 1)

\* programmable_bootstrap_lwe_ciphertext_mem_optimized run alone with enough
\* scratch: the LWE ciphertext it writes to the output.
programmable_bootstrap_lwe_ciphertext_mem_optimized(lwe_in, acc, bsk, polynomial_size) ==
    extract_lwe_sample_from_glwe_ciphertext(
        blind_rotate_from(blind_rotate_init(acc, lwe_in, polynomial_size),
                          bsk, lwe_in, polynomial_size, 0),
        polynomial_size)

\* The local accumulator as it lies at the start of the scratch memory, and
\* read back from it.
glwe_as_memory(glwe, polynomial_size) ==
    [t \in 1 .. Len(glwe) * polynomial_size |->
        glwe[((t - 1) \div polynomial_size) + 1][((t - 1) % polynomial_size) + 1]]

memory_as_glwe(memory, glwe_size, polynomial_size) ==
    [c \in 1 .. glwe_size |->
        [u \in 1 .. polynomial_size |-> memory[(c - 1) * polynomial_size + u]]]

\* memory with its first Len(prefix) scalars replaced by prefix.
memory_write(memory, prefix) ==
    [t \in 1 .. Len(memory) |-> IF t <= Len(prefix) THEN prefix[t] ELSE memory[t]]

(***************************************************************************)
(* State.                                                                  *)
(***************************************************************************)
VARIABLES
    \* --- decomposer session ---
    dec,            \* the decomposer: kind, base_log, level_count, modulus q
    input,          \* the scalar handed to closest_representable / decompose
    closest,        \* Some(closest_representable(input)) once computed
    closest_again,  \* Some(closest_representable(closest)) once computed
    sum_overflow,   \* whether `res + non_rep_msb` left the scalar range
    iter,           \* Some(the decomposition iterator) between decompose and recompose
    taken,          \* calls of next() made on the iterator since decompose
    terms,          \* the terms next() has yielded, in order
    recomposed,     \* << the Option recompose returned >> once it was called
    earlier_terms,  \* Some(the terms of an earlier decompose of the same input)
    \* --- keyswitch-key generation session ---
    ks_setup,               \* parameters and seeds of the session
    secret_generator,       \* position reached in the secret stream
    input_lwe_secret_key,
    output_lwe_secret_key,
    ksk,                    \* the LweKeyswitchKey handed to generate_lwe_keyswitch_key
    encryption_generator,   \* the generator handed to generate_lwe_keyswitch_key
    seeded_ksk,             \* the SeededLweKeyswitchKey
    deterministic_seeder,   \* the noise seeder handed to the seeded generation
    decompressed_ksk,       \* Some(decompressed seeded key) once decompressed
    ks_status,              \* per key: "new", "generated" or "panicked"
    ks_diagnostic,          \* per key: Some(the message of the failed assertion)
    repetition,             \* the repetition of the session, from 1
    \* --- CRSGLWE encryption session ---
    crs_setup,              \* shape, modulus, noise parameter, seeds, message
    crs_glwe_secret_key,
    plaintext_list,         \* the encoded plaintexts
    crs_glwe,               \* the CRSGlweCiphertext
    crs_generator,          \* the encryption generator
    crs_encryption,         \* Some(body before, shape recomputed, noise added by
                            \* the encryption) once it ran
    output_plaintext_list,  \* Some(content) once decrypt_crs_glwe_ciphertext ran
    crs_pc,                 \* "allocated", "loaded", "encrypted", "decrypted"
    \* --- trace-packing session ---
    tp_setup,                   \* parameters and seeds of the session
    tp_lwe_secret_key,          \* the binary LWE secret key
    tp_glwe_secret_key,         \* the GLWE secret key derived from it
    lwe_tpksk,                  \* the LweTracePackingKeyswitchKey
    input_lwe_ciphertext_list,  \* the LWE ciphertexts to pack
    indices,                    \* the coefficient index of every input
    output_glwe_ciphertext,     \* the GLWE ciphertext the call writes
    glwe_list,                  \* the N slot ciphertexts of the call
    tp_round,                   \* the butterfly step the call is about to run
    cleartext_list,             \* Some(decoded decryption of the output)
    tp_pc,                      \* "ready", "butterfly", "copy", "returned",
                                \* "decoded", "panicked"
    \* --- bootstrap batch ---
    pbs_setup,      \* parameters, seeds and buffer sizes of the batch
    fourier_bsk,    \* the bootstrapping key shared by the workers
    accumulator,    \* the accumulator GLWE ciphertext shared by the workers
    input_vec,      \* the input LWE ciphertexts
    output_vec,     \* the output LWE ciphertexts
    buffers_vec,    \* the scratch memory of every ComputationBuffers
    worker,         \* per item of the batch: the position of its bootstrap
    \* --- CRS entities ---
    ent_setup,      \* the entity, its constructor and the arguments of the call
    entity,         \* the constructed entity, None before and when refused
    ent_access,     \* what the accessors returned, None before they are called
    ent_pc          \* "start", "rejected", "owned", "rebuilt", "view"

decVars == << dec, input, closest, closest_again, sum_overflow, iter, taken,
              terms, recomposed, earlier_terms >>

ksVars == << ks_setup, secret_generator, input_lwe_secret_key,
             output_lwe_secret_key, ksk, encryption_generator, seeded_ksk,
             deterministic_seeder, decompressed_ksk, ks_status, ks_diagnostic,
             repetition >>

crsVars == << crs_setup, crs_glwe_secret_key, plaintext_list, crs_glwe,
              crs_generator, crs_encryption, output_plaintext_list, crs_pc >>

tpVars == << tp_setup, tp_lwe_secret_key, tp_glwe_secret_key, lwe_tpksk,
             input_lwe_ciphertext_list, indices, output_glwe_ciphertext,
             glwe_list, tp_round, cleartext_list, tp_pc >>

pbsVars == << pbs_setup, fourier_bsk, accumulator, input_vec, output_vec,
              buffers_vec, worker >>

entVars == << ent_setup, entity, ent_access, ent_pc >>

vars == << decVars, ksVars, crsVars, tpVars, pbsVars, entVars >>

(***************************************************************************)
(* Decomposer session: construction and operations.                        *)
(***************************************************************************)
\* The custom moduli tried: small ones, powers of two below the native one,
\* the analogue of 2^64 - 2^32 + 1, and the largest ones of the scalar type.
CustomModuli ==
    {3, 7, 12, 2 ^ (ScalarBits - 2), 2 ^ (ScalarBits - 1),
     TwoPowW - 2 ^ (ScalarBits \div 2) + 1, TwoPowW - 3, TwoPowW - 1}

\* SignedDecomposer::new: base_log * level_count < W.
NativeDecomposers ==
    { [kind |-> "native", base_log |-> b, level_count |-> l, q |-> 0] :
        <<b, l>> \in { bl \in (1 .. ScalarBits) \X (1 .. ScalarBits) :
                         bl[1] * bl[2] < ScalarBits } }

\* SignedDecomposerNonNative::new, with B^l <= q so that floor(q / B^l) >= 1.
NonNativeDecomposers ==
    { [kind |-> "non_native", base_log |-> c[1], level_count |-> c[2], q |-> c[3]] :
        c \in { blq \in (1 .. ScalarBits) \X (1 .. ScalarBits) \X CustomModuli :
                  /\ blq[1] * blq[2] < ScalarBits
                  /\ 2 ^ (blq[1] * blq[2]) <= blq[3] } }

NoDecomposer == [kind |-> "off", base_log |-> 1, level_count |-> 1, q |-> 0]

EntIdle ==
    /\ ent_setup = [kind |-> "off"]
    /\ entity = None
    /\ ent_access = None
    /\ ent_pc = "start"

DecIdle ==
    /\ dec = NoDecomposer
    /\ input = 0
    /\ closest = None
    /\ closest_again = None
    /\ sum_overflow = FALSE
    /\ iter = None
    /\ taken = 0
    /\ terms = << >>
    /\ recomposed = << >>
    /\ earlier_terms = None

KsIdle ==
    /\ ks_setup = << >>
    /\ secret_generator = 0
    /\ input_lwe_secret_key = << >>
    /\ output_lwe_secret_key = << >>
    /\ ksk = None
    /\ encryption_generator = None
    /\ seeded_ksk = None
    /\ deterministic_seeder = None
    /\ decompressed_ksk = None
    /\ ks_status = [ksk |-> "off", seeded |-> "off"]
    /\ ks_diagnostic = [ksk |-> None, seeded |-> None]
    /\ repetition = 0

CrsIdle ==
    /\ crs_setup = << >>
    /\ crs_glwe_secret_key = << >>
    /\ plaintext_list = << >>
    /\ crs_glwe = << >>
    /\ crs_generator = None
    /\ crs_encryption = None
    /\ output_plaintext_list = None
    /\ crs_pc = "off"

TpIdle ==
    /\ tp_setup = << >>
    /\ tp_lwe_secret_key = << >>
    /\ tp_glwe_secret_key = << >>
    /\ lwe_tpksk = << >>
    /\ input_lwe_ciphertext_list = << >>
    /\ indices = << >>
    /\ output_glwe_ciphertext = << >>
    /\ glwe_list = << >>
    /\ tp_round = << >>
    /\ cleartext_list = None
    /\ tp_pc = "off"

PbsIdle ==
    /\ pbs_setup = << >>
    /\ fourier_bsk = << >>
    /\ accumulator = << >>
    /\ input_vec = << >>
    /\ output_vec = << >>
    /\ buffers_vec = << >>
    /\ worker = << >>

InitDecomposer ==
    /\ EntIdle
    /\ KsIdle
    /\ CrsIdle
    /\ TpIdle
    /\ PbsIdle
    /\ dec \in NativeDecomposers \cup NonNativeDecomposers
    /\ input \in Scalars
    /\ closest = None
    /\ closest_again = None
    /\ sum_overflow = FALSE
    /\ iter = None
    /\ taken = 0
    /\ terms = << >>
    /\ recomposed = << >>
    /\ earlier_terms = None

DecClosest(x) ==
    IF dec.kind = "native"
    THEN closest_representable(dec.base_log, dec.level_count, x)
    ELSE closest_representable_non_native(dec.base_log, dec.level_count, dec.q, x)

\* decomposer.closest_representable(input)
ClosestRepresentable ==
    /\ UNCHANGED << ksVars, crsVars, tpVars, pbsVars, entVars >>
    /\ dec.kind # "off"
    /\ closest = None
    /\ closest' = Some(DecClosest(input))
    /\ sum_overflow' =
          (/\ dec.kind = "native"
           /\ closest_representable_sum(dec.base_log, dec.level_count, input)
                >= TwoPowW)
    /\ UNCHANGED << dec, input, closest_again, iter, taken, terms, recomposed,
                    earlier_terms >>

\* decomposer.closest_representable(closest)
ClosestRepresentableAgain ==
    /\ UNCHANGED << ksVars, crsVars, tpVars, pbsVars, entVars >>
    /\ dec.kind # "off"
    /\ closest # None
    /\ closest_again = None
    /\ closest_again' = Some(DecClosest(closest[1]))
    /\ UNCHANGED << dec, input, closest, sum_overflow, iter, taken, terms,
                    recomposed, earlier_terms >>

\* decomposer.decompose(input)
Decompose ==
    /\ UNCHANGED << ksVars, crsVars, tpVars, pbsVars, entVars >>
    /\ dec.kind # "off"
    /\ iter = None
    /\ recomposed = << >>
    /\ iter' = Some(IF dec.kind = "native"
                    THEN decompose(dec.base_log, dec.level_count, input)
                    ELSE decompose_non_native(dec.base_log, dec.level_count,
                                              dec.q, input))
    /\ UNCHANGED << dec, input, closest, closest_again, sum_overflow, taken,
                    terms, recomposed, earlier_terms >>

\* iterator.next(); one call more than there are terms is allowed, to see the end.
IterNext ==
    /\ UNCHANGED << ksVars, crsVars, tpVars, pbsVars, entVars >>
    /\ iter # None
    /\ taken <= dec.level_count
    /\ LET r == IF dec.kind = "native"
                THEN SignedDecompositionIter_next(iter[1])
                ELSE SignedDecompositionIterNonNative_next(iter[1])
       IN  /\ iter' = Some(r.iter)
           /\ terms' = IF r.item = None THEN terms ELSE Append(terms, r.item[1])
    /\ taken' = taken + 1
    /\ UNCHANGED << dec, input, closest, closest_again, sum_overflow, recomposed,
                    earlier_terms >>

\* decomposer.recompose(iterator): the iterator is moved into the call.
Recompose ==
    /\ UNCHANGED << ksVars, crsVars, tpVars, pbsVars, entVars >>
    /\ iter # None
    /\ recomposed = << >>
    /\ recomposed' = << IF dec.kind = "native"
                        THEN recompose(iter[1])
                        ELSE recompose_non_native(dec.level_count, iter[1]) >>
    /\ iter' = None
    /\ UNCHANGED << dec, input, closest, closest_again, sum_overflow, taken, terms,
                    earlier_terms >>

\* decomposer.decompose(input) a second time, once the first iterator has ended:
\* the first iterator is dropped and its terms are kept for comparison.
DecomposeAgain ==
    /\ UNCHANGED << ksVars, crsVars, tpVars, pbsVars, entVars >>
    /\ iter # None
    /\ taken > dec.level_count
    /\ earlier_terms = None
    /\ earlier_terms' = Some(terms)
    /\ iter' = Some(IF dec.kind = "native"
                    THEN decompose(dec.base_log, dec.level_count, input)
                    ELSE decompose_non_native(dec.base_log, dec.level_count,
                                              dec.q, input))
    /\ taken' = 0
    /\ terms' = << >>
    /\ UNCHANGED << dec, input, closest, closest_again, sum_overflow, recomposed >>

NextDecomposer ==
    \/ ClosestRepresentable
    \/ ClosestRepresentableAgain
    \/ Decompose
    \/ IterNext
    \/ Recompose
    \/ DecomposeAgain

SpecDecomposer == InitDecomposer /\ [][NextDecomposer]_vars

(***************************************************************************)
(* Properties of the decomposers.                                          *)
(***************************************************************************)
\* The number of low bits the native decomposition cannot represent.
NonRepBitCount == ScalarBits - dec.level_count * dec.base_log

\* floor(q / B^l) of the non-native decomposer.
SmallestRepresentable == dec.q \div (2 ^ (dec.base_log * dec.level_count))

\* recompose was called on the iterator exactly as decompose returned it.
RecomposedFresh == recomposed # << >> /\ taken = 0

\* C1: for the native decomposer, recompose(decompose(x)) returns
\* Some(closest_representable(x)), for every base_log, level_count with
\* base_log * level_count < W and every W-bit x.
C1_RecomposeDecomposeNative ==
    (dec.kind = "native" /\ RecomposedFresh /\ closest # None)
        => recomposed[1] = closest

C1_Witness ==
    /\ dec.kind = "native"
    /\ dec.level_count >= 2
    /\ RecomposedFresh
    /\ closest # None
    /\ recomposed[1] = closest
    /\ closest[1] # input
    /\ closest[1] # 0

\* C2: for the non-native decomposer with B^l <= q, recompose(decompose(x))
\* returns Some(closest_representable(x)) for every scalar x.
C2_RecomposeDecomposeNonNative ==
    (dec.kind = "non_native" /\ RecomposedFresh /\ closest # None)
        => recomposed[1] = closest

\* C3 as stated: closest_representable is idempotent for both decomposers and
\* every value x of the scalar type.
C3_IdempotentEveryScalar ==
    closest_again # None => closest_again = closest

\* C3 amended: closest_representable is idempotent for the native decomposer on
\* every scalar, and for the non-native decomposer on every x < q.
C3_IdempotentBelowModulus ==
    (closest_again # None /\ (dec.kind = "native" \/ input < dec.q))
        => closest_again = closest

C3_Witness ==
    /\ dec.kind = "non_native"
    /\ input < dec.q
    /\ closest_again # None
    /\ closest_again = closest
    /\ closest[1] # input
    /\ closest[1] # 0

\* C4: the native closest_representable(x) is the multiple of 2^n nearest to x
\* modulo 2^W (n = W - base_log * level_count, ties up, a round-up past
\* 2^W - 1 wraps to 0): its n low bits are zero, it is at most 2^(n-1) away
\* from x modulo 2^W, and the addition of the rounding bit does not overflow.
C4_NativeNearestMultiple ==
    (dec.kind = "native" /\ closest # None) =>
        LET n == NonRepBitCount
            c == closest[1]
            d == wrapping_sub(c, input)
        IN  /\ c = (((input + 2 ^ (n - 1)) \div (2 ^ n)) * (2 ^ n)) % TwoPowW
            /\ c % (2 ^ n) = 0
            /\ (d <= 2 ^ (n - 1) \/ TwoPowW - d < 2 ^ (n - 1))
            /\ ~sum_overflow

\* A round-up past 2^W - 1 that wraps to 0.
C4_Witness ==
    /\ dec.kind = "native"
    /\ closest = Some(0)
    /\ NonRepBitCount >= 2
    /\ input >= TwoPowW - 2 ^ (NonRepBitCount - 1)
    /\ ~sum_overflow

\* C5 as stated: for every scalar x the non-native closest_representable(x) is
\* round(x / floor(q/B^l)) * floor(q/B^l), nothing being lost by the cast back
\* to the scalar type.
C5_NonNativeRoundedEveryScalar ==
    (dec.kind = "non_native" /\ closest # None) =>
        LET sr == SmallestRepresentable
            v == closest[1]
        IN  /\ v % sr = 0
            /\ 2 * input - sr < 2 * v
            /\ 2 * v <= 2 * input + sr

\* C5 amended: the same for every x < q.
C5_NonNativeRoundedBelowModulus ==
    (dec.kind = "non_native" /\ closest # None /\ input < dec.q) =>
        LET sr == SmallestRepresentable
            v == closest[1]
        IN  /\ v % sr = 0
            /\ 2 * input - sr < 2 * v
            /\ 2 * v <= 2 * input + sr

\* An input that is rounded up, to a value that is not floor-rounded.
C5_Witness ==
    /\ dec.kind = "non_native"
    /\ input < dec.q
    /\ closest # None
    /\ closest[1] > input
    /\ SmallestRepresentable >= 3
    /\ SmallestRepresentable #
         divide_round_to_u128(dec.q, 2 ^ (dec.base_log * dec.level_count))

\* C30: for the non-native decomposer with custom modulus q, a power of two
\* held in a wider scalar included, and every input x in [0, q),
\* closest_representable(x) is a residue in [0, q).
C30_NonNativeClosestIsResidue ==
    (dec.kind = "non_native" /\ closest # None /\ input < dec.q) =>
        closest[1] >= 0 /\ closest[1] < dec.q

\* A residue just below a power-of-two custom modulus is rounded up to the
\* modulus itself.
C30_Witness ==
    /\ dec.kind = "non_native"
    /\ dec.q = 2 ^ (ScalarBits - 1)
    /\ input = dec.q - 1
    /\ closest = Some(dec.q)

\* The rounded value of a residue leaves [0, q) only for the inputs of the
\* last half interval below q, and then by less than one interval.
DecNonNativeClosestLeavesOnlyAtTop ==
    (dec.kind = "non_native" /\ closest # None /\ input < dec.q) =>
        /\ closest[1] < dec.q + SmallestRepresentable
        /\ closest[1] >= dec.q => 2 * input + SmallestRepresentable >= 2 * dec.q

C13_TermsWithinHalfBasis ==
    dec.kind # "off" =>
        LET half_basis == (2 ^ dec.base_log) \div 2
        IN  \A n \in 1 .. Len(terms) :
                LET signed_term == into_signed(DecompositionTerm_value(terms[n]))
                IN  /\ (0 - half_basis) <= signed_term
                    /\ signed_term <= half_basis

\* A complete decomposition over a basis of at least 4 with a negative term
\* that reaches -B/2 and a positive one.
C13_Witness ==
    /\ dec.kind # "off"
    /\ dec.base_log >= 2
    /\ dec.level_count >= 2
    /\ Len(terms) = dec.level_count
    /\ \E n \in 1 .. Len(terms) :
          into_signed(DecompositionTerm_value(terms[n])) = 0 - (2 ^ dec.base_log) \div 2
    /\ \E n \in 1 .. Len(terms) :
          into_signed(DecompositionTerm_value(terms[n])) > 0

\* The wrapping sum of the recomposition summands of a sequence of terms.
RECURSIVE SummandSum(_)
SummandSum(ts) ==
    IF ts = << >> THEN 0
    ELSE wrapping_add(
             IF dec.kind = "native"
             THEN to_recomposition_summand(Head(ts))
             ELSE to_recomposition_summand_non_native(Head(ts), dec.level_count),
             SummandSum(Tail(ts)))

\* C14: for both decomposers, recompose returns Some(the wrapping sum of the
\* summands of all terms) exactly when the iterator handed to it is fresh; once
\* next() was called on it, whether terms remain or the iterator has ended, it
\* returns None; in either case the call returns an Option and does not abort.
C14_RecomposeOnlyFresh ==
    recomposed # << >> =>
        /\ recomposed[1] = None \/ (\E v \in Scalars : recomposed[1] = Some(v))
        /\ taken = 0 =>
              /\ recomposed[1] # None
              /\ earlier_terms # None =>
                    recomposed[1] = Some(SummandSum(earlier_terms[1]))
        /\ taken > 0 => recomposed[1] = None

\* recompose has returned a sum for a fresh iterator over several non-zero terms.
C14_Witness ==
    /\ dec.kind # "off"
    /\ dec.level_count >= 2
    /\ recomposed # << >>
    /\ taken = 0
    /\ earlier_terms # None
    /\ recomposed[1] = Some(SummandSum(earlier_terms[1]))
    /\ recomposed[1][1] # 0
    /\ \A n \in 1 .. Len(earlier_terms[1]) : earlier_terms[1][n].value # 0

\* recompose has returned None for an iterator that had yielded some but not
\* all of its terms.
C14_WitnessConsumed ==
    /\ dec.kind # "off"
    /\ recomposed = << None >>
    /\ taken > 0
    /\ taken < dec.level_count

(***************************************************************************)
(* Keyswitch-key session: the two generations on the same keys and seeds,  *)
(* decompression of the seeded key, and repetition with fresh keys.        *)
(***************************************************************************)
KsDecompositions ==
    { bl \in (1 .. MaxBaseLog) \X (1 .. MaxLevelCount) : bl[1] * bl[2] <= ScalarBits }

KsSetups ==
    { [decomp_base_log           |-> bl[1],
       decomp_level_count        |-> bl[2],
       input_lwe_dimension       |-> d[1],
       output_lwe_dimension      |-> d[2],
       ksk_input_lwe_dimension   |-> d[3],
       ksk_output_lwe_dimension  |-> d[4],
       mask_seed                 |-> sd[1],
       deterministic_seeder_seed |-> sd[2],
       secret_seed               |-> sd[3]] :
        bl \in KsDecompositions,
        d \in { dd \in (1 .. MaxLweDimension) \X (1 .. MaxLweDimension)
                       \X (1 .. MaxLweDimension) \X (1 .. MaxLweDimension) :
                  dd[1] = dd[3] \/ dd[2] = dd[4] },
        sd \in (0 .. MaxSeed) \X (0 .. MaxSeed) \X (0 .. MaxSeed) }

\* The objects a repetition starts from: fresh secret keys drawn at position
\* pos of the secret stream, zeroed keys, a fresh generator and a fresh seeder.
KsFresh(setup, pos) ==
    [input_lwe_secret_key  |->
        generate_binary_lwe_secret_key(setup.secret_seed, pos,
                                       setup.input_lwe_dimension),
     output_lwe_secret_key |->
        generate_binary_lwe_secret_key(setup.secret_seed,
                                       pos + setup.input_lwe_dimension,
                                       setup.output_lwe_dimension),
     secret_generator |-> pos + setup.input_lwe_dimension + setup.output_lwe_dimension,
     ksk |-> LweKeyswitchKey_new(0, setup.decomp_base_log, setup.decomp_level_count,
                                 setup.ksk_input_lwe_dimension,
                                 setup.ksk_output_lwe_dimension),
     encryption_generator |->
        EncryptionRandomGenerator_new(
            setup.mask_seed,
            DeterministicSeeder_new(setup.deterministic_seeder_seed)).generator,
     seeded_ksk |-> SeededLweKeyswitchKey_new(
                        0, setup.decomp_base_log, setup.decomp_level_count,
                        setup.ksk_input_lwe_dimension,
                        setup.ksk_output_lwe_dimension, setup.mask_seed),
     deterministic_seeder |-> DeterministicSeeder_new(setup.deterministic_seeder_seed)]

InitKeyswitchKey ==
    /\ EntIdle
    /\ DecIdle
    /\ CrsIdle
    /\ TpIdle
    /\ PbsIdle
    /\ ks_setup \in KsSetups
    /\ LET f == KsFresh(ks_setup, 0)
       IN  /\ secret_generator = f.secret_generator
           /\ input_lwe_secret_key = f.input_lwe_secret_key
           /\ output_lwe_secret_key = f.output_lwe_secret_key
           /\ ksk = f.ksk
           /\ encryption_generator = f.encryption_generator
           /\ seeded_ksk = f.seeded_ksk
           /\ deterministic_seeder = f.deterministic_seeder
    /\ decompressed_ksk = None
    /\ ks_status = [ksk |-> "new", seeded |-> "new"]
    /\ ks_diagnostic = [ksk |-> None, seeded |-> None]
    /\ repetition = 1

\* Mutant: only the input dimensions are compared.
KsDimensionsMatch_input_only(key) ==
    input_key_lwe_dimension(key) = Len(input_lwe_secret_key)

\* The two assertions at the head of both generation functions.
KsDimensionsMatch(key) ==
    /\ input_key_lwe_dimension(key) = Len(input_lwe_secret_key)
    /\ output_key_lwe_dimension(key) = Len(output_lwe_secret_key)

\* generate_lwe_keyswitch_key(input key, output key, ksk, noise, generator)
GenerateLweKeyswitchKey ==
    /\ UNCHANGED << decVars, crsVars, tpVars, pbsVars, entVars >>
    /\ ks_status.ksk = "new"
    /\ IF KsDimensionsMatch(ksk)
       THEN LET r == generate_lwe_keyswitch_key(input_lwe_secret_key,
                         output_lwe_secret_key, ksk, encryption_generator)
            IN  /\ ksk' = r.key
                /\ encryption_generator' = r.generator
                /\ ks_status' = [ks_status EXCEPT !.ksk = "generated"]
                /\ UNCHANGED ks_diagnostic
       ELSE /\ ks_status' = [ks_status EXCEPT !.ksk = "panicked"]
            /\ ks_diagnostic' =
                   [ks_diagnostic EXCEPT !.ksk =
                       Some(keyswitch_key_assertion_message(
                                input_lwe_secret_key, output_lwe_secret_key, ksk))]
            /\ UNCHANGED << ksk, encryption_generator >>
    /\ UNCHANGED << ks_setup, secret_generator, input_lwe_secret_key,
                    output_lwe_secret_key, seeded_ksk, deterministic_seeder,
                    decompressed_ksk, repetition >>

\* generate_seeded_lwe_keyswitch_key(input key, output key, seeded ksk, noise, seeder)
GenerateSeededLweKeyswitchKey ==
    /\ UNCHANGED << decVars, crsVars, tpVars, pbsVars, entVars >>
    /\ ks_status.seeded = "new"
    /\ IF KsDimensionsMatch(seeded_ksk)
       THEN LET r == generate_seeded_lwe_keyswitch_key(input_lwe_secret_key,
                         output_lwe_secret_key, seeded_ksk, deterministic_seeder)
            IN  /\ seeded_ksk' = r.key
                /\ deterministic_seeder' = r.noise_seeder
                /\ ks_status' = [ks_status EXCEPT !.seeded = "generated"]
                /\ UNCHANGED ks_diagnostic
       ELSE /\ ks_status' = [ks_status EXCEPT !.seeded = "panicked"]
            /\ ks_diagnostic' =
                   [ks_diagnostic EXCEPT !.seeded =
                       Some(keyswitch_key_assertion_message(
                                input_lwe_secret_key, output_lwe_secret_key,
                                seeded_ksk))]
            /\ UNCHANGED << seeded_ksk, deterministic_seeder >>
    /\ UNCHANGED << ks_setup, secret_generator, input_lwe_secret_key,
                    output_lwe_secret_key, ksk, encryption_generator,
                    decompressed_ksk, repetition >>

\* seeded_ksk.decompress_into_lwe_keyswitch_key()
DecompressIntoLweKeyswitchKey ==
    /\ UNCHANGED << decVars, crsVars, tpVars, pbsVars, entVars >>
    /\ ks_status.seeded = "generated"
    /\ decompressed_ksk = None
    /\ decompressed_ksk' = Some(decompress_into_lwe_keyswitch_key(seeded_ksk))
    /\ UNCHANGED << ks_setup, secret_generator, input_lwe_secret_key,
                    output_lwe_secret_key, ksk, encryption_generator, seeded_ksk,
                    deterministic_seeder, ks_status, ks_diagnostic, repetition >>

\* The next repetition of the session: fresh secret keys from the same secret
\* generator, the same mask seed and seeder seed.
KsNextRepetition ==
    /\ UNCHANGED << decVars, crsVars, tpVars, pbsVars, entVars >>
    /\ repetition < MaxRepetitions
    /\ ks_status.ksk = "generated"
    /\ decompressed_ksk # None
    /\ LET f == KsFresh(ks_setup, secret_generator)
       IN  /\ secret_generator' = f.secret_generator
           /\ input_lwe_secret_key' = f.input_lwe_secret_key
           /\ output_lwe_secret_key' = f.output_lwe_secret_key
           /\ ksk' = f.ksk
           /\ encryption_generator' = f.encryption_generator
           /\ seeded_ksk' = f.seeded_ksk
           /\ deterministic_seeder' = f.deterministic_seeder
    /\ decompressed_ksk' = None
    /\ ks_status' = [ksk |-> "new", seeded |-> "new"]
    /\ ks_diagnostic' = [ksk |-> None, seeded |-> None]
    /\ repetition' = repetition + 1
    /\ UNCHANGED ks_setup

NextKeyswitchKey ==
    \/ GenerateLweKeyswitchKey
    \/ GenerateSeededLweKeyswitchKey
    \/ DecompressIntoLweKeyswitchKey
    \/ KsNextRepetition

SpecKeyswitchKey == InitKeyswitchKey /\ [][NextKeyswitchKey]_vars

(***************************************************************************)
(* Properties of keyswitch-key generation.                                 *)
(***************************************************************************)
\* C7: on the same secret keys, decomposition parameters, mask seed and
\* noise-seeder seed, the key filled by generate_lwe_keyswitch_key equals,
\* coefficient for coefficient, the key generate_seeded_lwe_keyswitch_key
\* filled once decompressed, on every repetition with fresh secret keys.
C7_SeededEquivalence ==
    (ks_status.ksk = "generated" /\ decompressed_ksk # None)
        => decompressed_ksk[1] = ksk

C7_Witness ==
    /\ repetition >= 2
    /\ ks_status.ksk = "generated"
    /\ decompressed_ksk = Some(ksk)
    /\ Len(input_lwe_secret_key) >= 2
    /\ Len(output_lwe_secret_key) >= 2
    /\ ksk.decomp_level_count >= 2
    /\ \E t \in 1 .. Len(output_lwe_secret_key) : output_lwe_secret_key[t] = 1
    /\ \E i \in 1 .. Len(input_lwe_secret_key) : input_lwe_secret_key[i] = 1

\* C8: after generate_lwe_keyswitch_key the key has exactly n_in blocks of
\* exactly level_count ciphertexts, and ciphertext j of block i is a freshly
\* written encryption under the output key of s_in[i] * 2^(W - base_log * j)
\* modulo 2^W (its phase is that value plus the noise drawn for it).
C8_KeyswitchKeyContents ==
    ks_status.ksk = "generated" =>
        LET n_in == Len(input_lwe_secret_key)
            n_out == Len(output_lwe_secret_key)
            l == ks_setup.decomp_level_count
            b == ks_setup.decomp_base_log
            first == EncryptionRandomGenerator_new(
                         ks_setup.mask_seed,
                         DeterministicSeeder_new(
                             ks_setup.deterministic_seeder_seed)).generator
        IN  /\ Len(ksk.blocks) = n_in
            /\ \A i \in 1 .. n_in :
                 /\ Len(ksk.blocks[i]) = l
                 /\ \A j \in 1 .. l :
                      LET ct == ksk.blocks[i][j]
                          c == (i - 1) * l + (j - 1)
                      IN  /\ Len(ct.mask) = n_out
                          /\ \A t \in 1 .. n_out :
                               ct.mask[t] =
                                 MaskSample(first.mask_seed, c * n_out + t - 1)
                          /\ decrypt_lwe_ciphertext(output_lwe_secret_key, ct)
                               = (input_lwe_secret_key[i] * 2 ^ (ScalarBits - b * j)
                                  + NoiseSample(first.noise_seed, c)) % TwoPowW

C8_Witness ==
    /\ ks_status.ksk = "generated"
    /\ Len(input_lwe_secret_key) >= 2
    /\ ks_setup.decomp_level_count >= 2
    /\ ks_setup.decomp_base_log >= 2
    /\ input_lwe_secret_key[1] # input_lwe_secret_key[2]
    /\ \E t \in 1 .. Len(output_lwe_secret_key) : output_lwe_secret_key[t] = 1
    /\ \E i \in 1 .. 2 :
         decrypt_lwe_ciphertext(output_lwe_secret_key, ksk.blocks[i][2])
           = 2 ^ (ScalarBits - 2 * ks_setup.decomp_base_log)

\* A destination key whose dimensions are not those of the two secret keys.
KsDimensionsDiffer(key) ==
    \/ input_key_lwe_dimension(key) # Len(input_lwe_secret_key)
    \/ output_key_lwe_dimension(key) # Len(output_lwe_secret_key)

\* The objects of the first repetition as they were before any call.
KsBeforeCalls == KsFresh(ks_setup, 0)

\* C18: when the destination key's input dimension differs from the input
\* secret key's, or its output dimension from the output secret key's, both
\* generation functions abort; after the abort the destination key holds what
\* it held before the call, and the generator (plain generation) or the noise
\* seeder (seeded generation) is where it was.
C18_AbortLeavesKeyAndGenerators ==
    /\ (ks_status.ksk \in {"generated", "panicked"} /\ KsDimensionsDiffer(ksk)) =>
           /\ ks_status.ksk = "panicked"
           /\ ksk = KsBeforeCalls.ksk
           /\ encryption_generator = KsBeforeCalls.encryption_generator
    /\ (ks_status.seeded \in {"generated", "panicked"}
          /\ KsDimensionsDiffer(seeded_ksk)) =>
           /\ ks_status.seeded = "panicked"
           /\ seeded_ksk = KsBeforeCalls.seeded_ksk
           /\ deterministic_seeder = KsBeforeCalls.deterministic_seeder
    /\ (ks_status.ksk = "panicked" \/ ks_status.seeded = "panicked") =>
           KsDimensionsDiffer(ksk)

\* Both generations have aborted on a destination key whose output dimension
\* is not the output secret key's, the input dimensions being equal.
C18_Witness ==
    /\ ks_status = [ksk |-> "panicked", seeded |-> "panicked"]
    /\ input_key_lwe_dimension(ksk) = Len(input_lwe_secret_key)
    /\ output_key_lwe_dimension(ksk) # Len(output_lwe_secret_key)
    /\ \E t \in 1 .. Len(input_lwe_secret_key) : input_lwe_secret_key[t] = 1

\* C19: the message of an abort on a dimension mismatch reports the two
\* quantities that were compared: for the input check the key's input
\* dimension and the input secret key's dimension, for the output check the
\* key's output dimension and the output secret key's dimension.
C19_DiagnosticReportsCompared ==
    \A k \in {"ksk", "seeded"} :
        ks_diagnostic[k] # None =>
            LET key == IF k = "ksk" THEN ksk ELSE seeded_ksk
                message == ks_diagnostic[k][1]
            IN  /\ message.check = "input" =>
                      /\ message.destination = input_key_lwe_dimension(key)
                      /\ message.other = Len(input_lwe_secret_key)
                /\ message.check = "output" =>
                      /\ message.destination = output_key_lwe_dimension(key)
                      /\ message.other = Len(output_lwe_secret_key)

\* An abort on the output check whose message shows two equal dimensions.
C19_Witness ==
    /\ ks_diagnostic.ksk # None
    /\ ks_diagnostic.ksk[1].check = "output"
    /\ ks_diagnostic.ksk[1].destination = ks_diagnostic.ksk[1].other
    /\ output_key_lwe_dimension(ksk) # Len(output_lwe_secret_key)

\* The message of the input check does report the two compared dimensions.
KsInputDiagnosticReportsCompared ==
    \A k \in {"ksk", "seeded"} :
        (ks_diagnostic[k] # None /\ ks_diagnostic[k][1].check = "input") =>
            /\ ks_diagnostic[k][1].destination =
                   input_key_lwe_dimension(IF k = "ksk" THEN ksk ELSE seeded_ksk)
            /\ ks_diagnostic[k][1].other = Len(input_lwe_secret_key)
            /\ ks_diagnostic[k][1].destination # ks_diagnostic[k][1].other

(***************************************************************************)
(* CRSGLWE session: a key and a ciphertext of the same declared shape, the *)
(* body is loaded with encoded plaintexts, encrypted, then decrypted.      *)
(***************************************************************************)
\* The native modulus and the custom powers of two that leave room for the
\* message and the noise.
CrsModuli ==
    {CiphertextModulus_new_native}
        \cup { CiphertextModulus_try_new(2 ^ e) :
                 e \in (MessageBits + 2) .. (ScalarBits - 1) }

CrsSetups ==
    { [k                  |-> sh[1],
       d                  |-> sh[2],
       N                  |-> sh[3],
       ciphertext_modulus |-> m,
       noise_parameters   |-> np,
       mask_seed          |-> sd[1],
       noise_seed         |-> sd[2],
       secret_seed        |-> sd[3],
       msg                |-> msg,
       fault              |-> "none"] :
        sh \in (1 .. MaxCrsDimension) \X (1 .. MaxCrsCodimension)
                 \X (1 .. MaxPolynomialSize),
        m \in CrsModuli,
        np \in {0, 1},
        sd \in (0 .. MaxSeed) \X (0 .. MaxSeed) \X (0 .. MaxSeed),
        msg \in {0, 2 ^ MessageBits - 1} }

\* The ways a session leaves the example: a key of another dimension or
\* polynomial size handed to the encryption or to the decryption, an output
\* plaintext list of another length than the body, and the fill function
\* called on views the caller built, of one modulus or of two.
CrsFaults ==
    {"enc_dimension", "enc_polynomial_size", "dec_dimension",
     "dec_polynomial_size", "output_length", "fill_modulus", "fill_direct"}

CrsFaultySetups ==
    { [s EXCEPT !.fault = f] :
        <<s, f>> \in { t \in CrsSetups : /\ t.mask_seed = 0
                                         /\ t.noise_seed = 0
                                         /\ t.secret_seed = MaxSeed
                                         /\ t.noise_parameters = 1
                                         /\ t.msg # 0 }
                     \X CrsFaults }

\* The modulus as a number: 2^W when native.
CrsModulusValue(ciphertext_modulus) ==
    IF is_native_modulus(ciphertext_modulus) THEN TwoPowW
    ELSE get_custom_modulus(ciphertext_modulus)

\* The encoding step: the modulus divided by the size of the message space.
CrsDelta(ciphertext_modulus) ==
    CrsModulusValue(ciphertext_modulus) \div (2 ^ MessageBits)

\* allocate_and_generate_new_binary_crs_glwe_secret_key
allocate_and_generate_new_binary_crs_glwe_secret_key(dimension, codimension, polynomial_size, seed) ==
    LET empty == CRSGlweSecretKey_new_empty_key(0, dimension, codimension,
                                                polynomial_size)
    IN  [empty EXCEPT !.data =
            generate_binary_lwe_secret_key(seed, 0, Len(empty.data))]

InitCRSGlwe ==
    /\ EntIdle
    /\ DecIdle
    /\ KsIdle
    /\ TpIdle
    /\ PbsIdle
    /\ crs_setup \in CrsSetups \cup CrsFaultySetups
    /\ crs_glwe_secret_key =
          allocate_and_generate_new_binary_crs_glwe_secret_key(
              crs_setup.k + (IF crs_setup.fault = "enc_dimension" THEN 1 ELSE 0),
              crs_setup.d,
              crs_setup.N
                  + (IF crs_setup.fault = "enc_polynomial_size" THEN 1 ELSE 0),
              crs_setup.secret_seed)
    /\ plaintext_list =
          [t \in 1 .. crs_setup.d * crs_setup.N |->
              ((crs_setup.msg + 3 * (t - 1)) % (2 ^ MessageBits))
                  * CrsDelta(crs_setup.ciphertext_modulus)]
    /\ crs_glwe = CRSGlweCiphertext_new(
                      0, CRSGlweSize(crs_setup.k + crs_setup.d, crs_setup.d),
                      crs_setup.N, crs_setup.ciphertext_modulus)
    /\ crs_generator =
          EncryptionRandomGenerator_new(
              crs_setup.mask_seed,
              DeterministicSeeder_new(crs_setup.noise_seed)).generator
    /\ crs_encryption = None
    /\ output_plaintext_list = None
    /\ crs_pc = "allocated"

\* crs_glwe.get_mut_body().as_mut().copy_from_slice(plaintext_list)
CrsLoadBody ==
    /\ UNCHANGED << decVars, ksVars, tpVars, pbsVars, entVars >>
    /\ crs_pc = "allocated"
    /\ LET mb == get_mask_and_body(crs_glwe)
       IN  crs_glwe' = [crs_glwe EXCEPT !.data = mb.mask.data \o plaintext_list]
    /\ crs_pc' = "loaded"
    /\ UNCHANGED << crs_setup, crs_glwe_secret_key, plaintext_list, crs_generator,
                    crs_encryption, output_plaintext_list >>

\* encrypt_crs_glwe_ciphertext_assign(key, crs_glwe, noise_parameters, generator)
EncryptCrsGlweCiphertextAssign ==
    /\ UNCHANGED << decVars, ksVars, tpVars, pbsVars, entVars >>
    /\ crs_pc \in {"allocated", "loaded"}
    /\ crs_setup.fault \notin {"fill_modulus", "fill_direct"}
    /\ IF encrypt_crs_glwe_ciphertext_assertions(crs_glwe_secret_key, crs_glwe)
       THEN LET r == encrypt_crs_glwe_ciphertext_assign(
                         crs_glwe_secret_key, crs_glwe,
                         crs_setup.noise_parameters, crs_generator)
            IN  /\ crs_glwe' = r.output
                /\ crs_generator' = r.generator
                /\ crs_encryption' =
                      Some([preloaded |-> get_mask_and_body(crs_glwe).body.data,
                            shape     |-> r.shape,
                            noise     |-> r.noise])
                /\ crs_pc' = "encrypted"
       ELSE /\ crs_pc' = "panicked"
            /\ UNCHANGED << crs_glwe, crs_generator, crs_encryption >>
    /\ UNCHANGED << crs_setup, crs_glwe_secret_key, plaintext_list,
                    output_plaintext_list >>

\* The views handed to a direct call of the fill function: those of the
\* ciphertext, the mask's declared with another modulus when the setup says so.
CrsFillViews ==
    LET mb == get_mask_and_body(crs_glwe)
    IN  IF crs_setup.fault = "fill_modulus"
        THEN [mb EXCEPT !.mask.ciphertext_modulus =
                 IF is_native_modulus(crs_glwe.ciphertext_modulus)
                 THEN CiphertextModulus_try_new(2 ^ (ScalarBits - 1))
                 ELSE CiphertextModulus_new_native]
        ELSE mb

\* fill_crs_glwe_mask_and_body_for_encryption_assign(key, mask, body, noise,
\* generator) called on the two views of the ciphertext.
FillCrsGlweMaskAndBody ==
    /\ UNCHANGED << decVars, ksVars, tpVars, pbsVars, entVars >>
    /\ crs_pc \in {"allocated", "loaded"}
    /\ crs_setup.fault \in {"fill_modulus", "fill_direct"}
    /\ IF fill_crs_glwe_moduli_match(CrsFillViews.mask, CrsFillViews.body)
       THEN LET r == fill_crs_glwe_mask_and_body_for_encryption_assign(
                         crs_glwe_secret_key, CrsFillViews.mask, CrsFillViews.body,
                         crs_setup.noise_parameters, crs_generator)
            IN  /\ crs_glwe' = [crs_glwe EXCEPT !.data = r.mask \o r.body]
                /\ crs_generator' = r.generator
                /\ crs_encryption' =
                      Some([preloaded |-> get_mask_and_body(crs_glwe).body.data,
                            shape     |-> r.shape,
                            noise     |-> r.noise])
                /\ crs_pc' = "encrypted"
       ELSE /\ crs_pc' = "panicked"
            /\ UNCHANGED << crs_glwe, crs_generator, crs_encryption >>
    /\ UNCHANGED << crs_setup, crs_glwe_secret_key, plaintext_list,
                    output_plaintext_list >>

\* The key handed to the decryption: the encryption key, or a key of another
\* dimension or polynomial size.
CrsDecryptionKey ==
    IF crs_setup.fault \in {"dec_dimension", "dec_polynomial_size"}
    THEN allocate_and_generate_new_binary_crs_glwe_secret_key(
             crs_setup.k + (IF crs_setup.fault = "dec_dimension" THEN 1 ELSE 0),
             crs_setup.d,
             crs_setup.N + (IF crs_setup.fault = "dec_polynomial_size" THEN 1 ELSE 0),
             crs_setup.secret_seed)
    ELSE crs_glwe_secret_key

\* The length of the plaintext list handed to the decryption.
CrsOutputPlaintextCount ==
    crs_setup.d * crs_setup.N + (IF crs_setup.fault = "output_length" THEN 1 ELSE 0)

\* decrypt_crs_glwe_ciphertext(key, crs_glwe, output_plaintext_list)
DecryptCrsGlweCiphertext ==
    /\ UNCHANGED << decVars, ksVars, tpVars, pbsVars, entVars >>
    /\ crs_pc = "encrypted"
    /\ IF /\ decrypt_crs_glwe_ciphertext_assertions(CrsDecryptionKey, crs_glwe)
          /\ copy_from_slice_fits(CrsOutputPlaintextCount, crs_glwe)
       THEN /\ output_plaintext_list' =
                  Some(decrypt_crs_glwe_ciphertext(CrsDecryptionKey, crs_glwe))
            /\ crs_pc' = "decrypted"
       ELSE /\ crs_pc' = "panicked"
            /\ UNCHANGED output_plaintext_list
    /\ UNCHANGED << crs_setup, crs_glwe_secret_key, plaintext_list, crs_glwe,
                    crs_generator, crs_encryption >>

NextCRSGlwe ==
    \/ CrsLoadBody
    \/ EncryptCrsGlweCiphertextAssign
    \/ FillCrsGlweMaskAndBody
    \/ DecryptCrsGlweCiphertext

SpecCRSGlwe == InitCRSGlwe /\ [][NextCRSGlwe]_vars

(***************************************************************************)
(* Properties of CRSGLWE encryption and decryption.                        *)
(***************************************************************************)
\* Mask polynomial i (from 1) of the ciphertext.
CrsMaskPolynomial(i) ==
    SubSeq(crs_glwe.data, (i - 1) * crs_setup.N + 1, i * crs_setup.N)

\* Body polynomial j (from 1) of the ciphertext.
CrsBodyPolynomial(j) ==
    SubSeq(crs_glwe.data, (crs_setup.k + j - 1) * crs_setup.N + 1,
           (crs_setup.k + j) * crs_setup.N)

\* Key polynomial i (from 1) of key chunk j (from 1): S_((j-1)*k + (i-1)).
CrsKeyPolynomial(j, i) ==
    SubSeq(crs_glwe_secret_key.data,
           ((j - 1) * crs_setup.k + (i - 1)) * crs_setup.N + 1,
           ((j - 1) * crs_setup.k + i) * crs_setup.N)

\* Coefficient t of sum over i <= k of A_i * S_(chunk j, i).
CrsMultisumCoefficient(j, t) ==
    wrapping_sum([i \in 1 .. crs_setup.k |->
                     polynomial_wrapping_mul_coefficient(
                         CrsMaskPolynomial(i), CrsKeyPolynomial(j, i), t)],
                 crs_setup.k)

CrsAbs(x) == IF x < 0 THEN 0 - x ELSE x

\* C9: decrypting what encrypt_crs_glwe_ciphertext_assign produced from a body
\* preloaded with d*N plaintext coefficients m returns, for every coefficient,
\* m plus the injected noise (modulo the ciphertext modulus): exactly m when
\* the noise is zero, and m after rounding to the encoding step whenever the
\* noise magnitude is below half that step.
C9_DecryptEncrypt ==
    crs_pc = "decrypted" =>
        LET enc == crs_encryption[1]
            out == output_plaintext_list[1]
            Q == CrsModulusValue(crs_setup.ciphertext_modulus)
            delta == CrsDelta(crs_setup.ciphertext_modulus)
        IN  /\ Len(out) = crs_setup.d * crs_setup.N
            /\ \A t \in 1 .. Len(out) :
                 LET m == enc.preloaded[t]
                     e == into_signed(enc.noise[t])
                 IN  /\ out[t] = (m + e + Q) % Q
                     /\ e = 0 => out[t] = m
                     /\ (m % delta = 0 /\ 2 * CrsAbs(e) < delta)
                          => (((2 * out[t] + delta) \div (2 * delta)) * delta) % Q = m

C9_Witness ==
    /\ crs_pc = "decrypted"
    /\ ~is_native_modulus(crs_setup.ciphertext_modulus)
    /\ crs_setup.k >= 2
    /\ crs_setup.d >= 2
    /\ crs_setup.N >= 2
    /\ crs_encryption[1].preloaded = plaintext_list
    /\ \E t \in 1 .. Len(plaintext_list) : plaintext_list[t] # 0
    /\ \E t \in 1 .. Len(plaintext_list) :
         /\ crs_encryption[1].noise[t] # 0
         /\ output_plaintext_list[1][t] # plaintext_list[t]
    /\ \E t \in 1 .. crs_setup.N : CrsMultisumCoefficient(2, t) # 0

C10_BodyMultisum ==
    crs_pc \in {"encrypted", "decrypted"} =>
        LET enc == crs_encryption[1]
        IN  /\ enc.shape = [k |-> crs_setup.k, d |-> crs_setup.d, p |-> crs_setup.N]
            /\ \A j \in 1 .. crs_setup.d, t \in 1 .. crs_setup.N :
                 LET at == (j - 1) * crs_setup.N + t
                 IN  CrsBodyPolynomial(j)[t] =
                       (enc.preloaded[at] + enc.noise[at]
                          + CrsMultisumCoefficient(j, t)) % TwoPowW

\* C10 amended: the recomputed k, d, N equal the declared ones, and body
\* polynomial j equals (its preloaded value plus its noise) times the scaling
\* factor of the modulus (1 when native), plus the multisum over i < k of
\* A_i * S_(j*k+i) with the mask as the call left it.
C10_BodyMultisumScaled ==
    crs_pc \in {"encrypted", "decrypted"} =>
        LET enc == crs_encryption[1]
            scaling == get_scaling_to_native_torus(crs_glwe.ciphertext_modulus)
        IN  /\ enc.shape = [k |-> crs_setup.k, d |-> crs_setup.d, p |-> crs_setup.N]
            /\ \A j \in 1 .. crs_setup.d, t \in 1 .. crs_setup.N :
                 LET at == (j - 1) * crs_setup.N + t
                 IN  CrsBodyPolynomial(j)[t] =
                       ((enc.preloaded[at] + enc.noise[at]) * scaling
                          + CrsMultisumCoefficient(j, t)) % TwoPowW

C10_Witness ==
    /\ crs_pc = "encrypted"
    /\ ~is_native_modulus(crs_setup.ciphertext_modulus)
    /\ crs_setup.k >= 2
    /\ crs_setup.d >= 2
    /\ crs_setup.N >= 2
    /\ \E t \in 1 .. Len(plaintext_list) : crs_encryption[1].preloaded[t] # 0
    /\ \E t \in 1 .. Len(plaintext_list) : crs_encryption[1].noise[t] # 0
    /\ \E i \in 1 .. crs_setup.k : CrsKeyPolynomial(1, i) # CrsKeyPolynomial(2, i)
    /\ \E t \in 1 .. crs_setup.N :
         CrsMultisumCoefficient(1, t) # CrsMultisumCoefficient(2, t)

\* The key handed to a call and the ciphertext disagree on dimension or on
\* polynomial size (the ciphertext is allocated with the setup's k, d, N).
CrsKeyDisagrees(key) ==
    \/ Len(key.data) # crs_setup.k * key.codimension * key.polynomial_size
    \/ key.polynomial_size # Len(crs_glwe.data) \div (crs_setup.k + crs_setup.d)

\* An encryption call (through encrypt or directly through fill) was made.
CrsEncryptionCalled ==
    crs_pc \in {"allocated", "loaded"} /\ crs_pc' \notin {"allocated", "loaded"}

\* A decryption call was made.
CrsDecryptionCalled == crs_pc = "encrypted" /\ crs_pc' # "encrypted"

\* C20: an encryption call aborts whenever the key and the ciphertext disagree
\* on dimension or polynomial size or the mask and body views disagree on
\* modulus; a decryption call aborts whenever key and ciphertext disagree on
\* dimension or polynomial size or the output plaintext list has not exactly as
\* many elements as the ciphertext body; an abort leaves the ciphertext, the
\* output list and the generator as they were before the call.
C20_AbortsOnDisagreement ==
    [][/\ (/\ CrsEncryptionCalled
           /\ \/ CrsKeyDisagrees(crs_glwe_secret_key)
              \/ /\ crs_setup.fault \in {"fill_modulus", "fill_direct"}
                 /\ CrsFillViews.mask.ciphertext_modulus
                      # CrsFillViews.body.ciphertext_modulus)
            => crs_pc' = "panicked"
       /\ (/\ CrsDecryptionCalled
           /\ \/ CrsKeyDisagrees(CrsDecryptionKey)
              \/ CrsOutputPlaintextCount # crs_setup.d * crs_setup.N)
            => crs_pc' = "panicked"
       /\ crs_pc' = "panicked" /\ crs_pc # "panicked"
            => /\ crs_glwe' = crs_glwe
               /\ output_plaintext_list' = output_plaintext_list
               /\ crs_generator' = crs_generator
      ]_vars

\* A decryption was refused for the length of its output list, after an
\* encryption that went through.
C20_Witness ==
    /\ crs_pc = "panicked"
    /\ crs_setup.fault = "output_length"
    /\ crs_encryption # None
    /\ output_plaintext_list = None

\* An abort happens only in a session that leaves the example.
CrsAbortOnlyOnFault ==
    crs_pc = "panicked" => crs_setup.fault \notin {"none", "fill_direct"}

(***************************************************************************)
(* Trace-packing session: the keys and the LWE list are made as in the     *)
(* example of the function, the call runs step by step, and its output is  *)
(* decrypted and decoded.                                                  *)
(***************************************************************************)
\* << polynomial size, GLWE dimension >>: the polynomial size is a power of two.
TpShapes == { <<2, 1>>, <<2, 2>>, <<4, 1>> }

\* Odd custom moduli: the analogue of 2^64 - 2^32 + 1 and the largest ones of
\* the scalar type; and an even one, which the call refuses.
TpModuli ==
    {TwoPowW - 2 ^ (ScalarBits \div 2) + 1, TwoPowW - 3, TwoPowW - 1,
     2 ^ (ScalarBits - 1)}

TpSetups ==
    { [polynomial_size    |-> c[1][1],
       glwe_dimension     |-> c[1][2],
       lwe_dimension      |-> c[1][1] * c[1][2] - c[2],
       ciphertext_modulus |-> CiphertextModulus_try_new(c[3]),
       mask_seed          |-> c[4],
       secret_seed        |-> MaxSeed - c[4],
       fill_with          |-> c[5],
       fault              |-> "none"] :
        c \in TpShapes \X {0, 1} \X TpModuli \X (0 .. MaxSeed) \X {0, 3} }

\* The ways a call breaks the contract of its arguments: more inputs than
\* coefficients, an index list of another length, an index out of range, inputs
\* of another LWE size, an output of another polynomial size or GLWE size, an
\* input list or an output of another modulus, the native modulus everywhere.
TpFaults ==
    {"lwe_count", "indices_len", "index_range", "lwe_size", "polynomial_size",
     "glwe_size", "input_modulus", "output_modulus", "native"}

\* The calls that break the contract, on the smallest polynomial size and an
\* output that is not zero before the call.
TpFaultySetups ==
    { [s EXCEPT !.fault = f] :
        <<s, f>> \in { t \in TpSetups : /\ t.polynomial_size = 2
                                        /\ t.mask_seed = 0
                                        /\ t.fill_with # 0
                                        /\ t.lwe_dimension =
                                             t.polynomial_size * t.glwe_dimension }
                     \X TpFaults }

\* The index list handed to the call, from a well-formed one.
TpCallIndices(setup, base) ==
    CASE setup.fault = "lwe_count" ->
             [j \in 1 .. setup.polynomial_size + 1 |-> (j - 1) % setup.polynomial_size]
      [] setup.fault = "indices_len" -> Append(base, 0)
      [] setup.fault = "index_range" -> [base EXCEPT ![1] = setup.polynomial_size]
      [] OTHER -> base

\* The number of input ciphertexts of the call.
TpCallLweCount(setup, base) ==
    IF setup.fault = "lwe_count" THEN setup.polynomial_size + 1 ELSE Len(base)

\* A modulus other than the key's: another odd custom modulus.
TpOtherModulus(ciphertext_modulus) ==
    CiphertextModulus_try_new(
        IF get_custom_modulus(ciphertext_modulus) = TwoPowW - 3
        THEN TwoPowW - 1 ELSE TwoPowW - 3)

\* The index lists: 1 to N pairwise distinct indices below N.
TpIndices(polynomial_size) ==
    { s \in UNION { [1 .. n -> 0 .. polynomial_size - 1] : n \in 1 .. polynomial_size } :
        \A a, b \in DOMAIN s : a # b => s[a] # s[b] }

TpModulusValue == get_custom_modulus(tp_setup.ciphertext_modulus)

\* The encoding of the example: delta = floor(q / 2^MessageBits).
TpDelta == TpModulusValue \div (2 ^ MessageBits)

\* The message of input j (from 1).
TpMessage(j) == (j + tp_setup.mask_seed) % (2 ^ MessageBits)

\* The keys, the trace-packing key, the input list and the output of the
\* example for a call with lwe_count inputs, each broken as the setup says.
TpInputs(setup, lwe_count) ==
    LET q == get_custom_modulus(setup.ciphertext_modulus)
        declared == IF setup.fault = "native" THEN CiphertextModulus_new_native
                    ELSE setup.ciphertext_modulus
        lwe_key == generate_binary_lwe_secret_key(
                       setup.secret_seed, 0,
                       setup.lwe_dimension
                           + (IF setup.fault = "lwe_size" THEN 1 ELSE 0))
        generator == EncryptionRandomGenerator_new(
                         setup.mask_seed,
                         DeterministicSeeder_new(setup.mask_seed)).generator
        glwe_key == generate_tpksk_output_glwe_secret_key(
                        generate_binary_lwe_secret_key(setup.secret_seed, 0,
                                                       setup.lwe_dimension),
                        setup.glwe_dimension, setup.polynomial_size, q)
        key == generate_lwe_trace_packing_keyswitch_key(
                   glwe_key, generator, q, log2(setup.polynomial_size))
        output_polynomial_size ==
            IF setup.fault = "polynomial_size"
            THEN 2 * setup.polynomial_size ELSE setup.polynomial_size
        output_glwe_size ==
            setup.glwe_dimension + 1 + (IF setup.fault = "glwe_size" THEN 1 ELSE 0)
    IN  /\ tp_lwe_secret_key = lwe_key
        /\ tp_glwe_secret_key = glwe_key
        /\ lwe_tpksk =
               [stages             |-> key.stages,
                input_lwe_size     |-> setup.lwe_dimension + 1,
                output_glwe_size   |-> setup.glwe_dimension + 1,
                polynomial_size    |-> setup.polynomial_size,
                ciphertext_modulus |-> declared]
        /\ input_lwe_ciphertext_list =
               [cts |-> encrypt_lwe_ciphertext_list_custom_mod(
                            lwe_key,
                            [j \in 1 .. lwe_count |->
                                wrapping_mul((j + setup.mask_seed) % (2 ^ MessageBits),
                                             q \div (2 ^ MessageBits))],
                            key.generator, q),
                lwe_size           |-> Len(lwe_key) + 1,
                ciphertext_modulus |->
                    IF setup.fault = "input_modulus"
                    THEN TpOtherModulus(declared) ELSE declared]
        /\ output_glwe_ciphertext =
               [data |-> GlweCiphertext_new(setup.fill_with, output_glwe_size,
                                            output_polynomial_size),
                polynomial_size    |-> output_polynomial_size,
                ciphertext_modulus |->
                    IF setup.fault = "output_modulus"
                    THEN TpOtherModulus(declared) ELSE declared]

InitTracePacking ==
    /\ EntIdle
    /\ DecIdle
    /\ KsIdle
    /\ CrsIdle
    /\ PbsIdle
    /\ tp_setup \in TpSetups \cup TpFaultySetups
    /\ \E base \in TpIndices(tp_setup.polynomial_size) :
          /\ indices = TpCallIndices(tp_setup, base)
          /\ TpInputs(tp_setup, TpCallLweCount(tp_setup, base))
    /\ glwe_list = << >>
    /\ tp_round = << >>
    /\ cleartext_list = None
    /\ tp_pc = "ready"

\* The call up to the first round: assertions, reset of the output, scatter.
TracePackingCall ==
    /\ UNCHANGED << decVars, ksVars, crsVars, pbsVars, entVars >>
    /\ tp_pc = "ready"
    /\ IF trace_packing_assertions(lwe_tpksk, output_glwe_ciphertext,
                                   input_lwe_ciphertext_list, indices)
       THEN /\ output_glwe_ciphertext' =
                   [output_glwe_ciphertext EXCEPT
                       !.data = GlweCiphertext_new(0, Len(output_glwe_ciphertext.data),
                                                   output_glwe_ciphertext.polynomial_size)]
            /\ glwe_list' =
                   initial_glwe_list(input_lwe_ciphertext_list.cts, indices,
                                     Len(output_glwe_ciphertext.data),
                                     output_glwe_ciphertext.polynomial_size,
                                     TpModulusValue)
            /\ tp_round' = [l |-> 0, i |-> 0]
            /\ tp_pc' = "butterfly"
       ELSE /\ tp_pc' = "panicked"
            /\ UNCHANGED << output_glwe_ciphertext, glwe_list, tp_round >>
    /\ UNCHANGED << tp_setup, tp_lwe_secret_key, tp_glwe_secret_key, lwe_tpksk,
                    input_lwe_ciphertext_list, indices, cleartext_list >>

\* One step of the two loops.  The sum q + 1 is formed in the scalar type:
\* when it leaves the type, a build with overflow checks panics and a build
\* without them goes on with the wrapped sum.
ButterflyStep ==
    /\ UNCHANGED << decVars, ksVars, crsVars, pbsVars, entVars >>
    /\ tp_pc = "butterfly"
    /\ LET pairs == tp_setup.polynomial_size \div (2 ^ (tp_round.l + 1))
           next == IF tp_round.i + 1 < pairs
                   THEN [l |-> tp_round.l, i |-> tp_round.i + 1]
                   ELSE [l |-> tp_round.l + 1, i |-> 0]
       IN  \/ /\ glwe_list' =
                     butterfly_step(glwe_list, lwe_tpksk.stages[tp_round.l + 1],
                                    tp_round.l, tp_round.i,
                                    tp_setup.polynomial_size, TpModulusValue)
              /\ tp_round' = next
              /\ tp_pc' = IF next.l = log2(tp_setup.polynomial_size)
                          THEN "copy" ELSE "butterfly"
           \/ /\ \/ any_nonzero(glwe_list[tp_round.i + 1])
                 \/ any_nonzero(glwe_list[pairs + tp_round.i + 1])
              /\ halving_scalar_overflows(TpModulusValue)
              /\ tp_pc' = "panicked"
              /\ UNCHANGED << glwe_list, tp_round >>
    /\ UNCHANGED << tp_setup, tp_lwe_secret_key, tp_glwe_secret_key, lwe_tpksk,
                    input_lwe_ciphertext_list, indices, output_glwe_ciphertext,
                    cleartext_list >>

\* The end of the call: slot 0 is added to the zeroed output.
TracePackingReturn ==
    /\ UNCHANGED << decVars, ksVars, crsVars, pbsVars, entVars >>
    /\ tp_pc = "copy"
    /\ output_glwe_ciphertext' =
           [output_glwe_ciphertext EXCEPT
               !.data = trace_packing_result(output_glwe_ciphertext.data,
                                             glwe_list)]
    /\ tp_pc' = "returned"
    /\ UNCHANGED << tp_setup, tp_lwe_secret_key, tp_glwe_secret_key, lwe_tpksk,
                    input_lwe_ciphertext_list, indices, glwe_list, tp_round,
                    cleartext_list >>

\* The example after the call: decrypt, round, remove the encoding.
DecryptAndDecode ==
    /\ UNCHANGED << decVars, ksVars, crsVars, pbsVars, entVars >>
    /\ tp_pc = "returned"
    /\ LET decrypted == decrypt_glwe_ciphertext_custom_mod(
                            tp_glwe_secret_key, output_glwe_ciphertext.data,
                            TpModulusValue)
       IN  cleartext_list' =
               Some([u \in 1 .. tp_setup.polynomial_size |->
                        round_and_remove_encoding(decrypted[u], MessageBits,
                                                  TpDelta, TpModulusValue)])
    /\ tp_pc' = "decoded"
    /\ UNCHANGED << tp_setup, tp_lwe_secret_key, tp_glwe_secret_key, lwe_tpksk,
                    input_lwe_ciphertext_list, indices, output_glwe_ciphertext,
                    glwe_list, tp_round >>

NextTracePacking ==
    \/ TracePackingCall
    \/ ButterflyStep
    \/ TracePackingReturn
    \/ DecryptAndDecode

SpecTracePacking == InitTracePacking /\ [][NextTracePacking]_vars

(***************************************************************************)
(* Trace-packing properties.                                               *)
(***************************************************************************)
\* The decoded coefficient u (from 1) is the message of the input placed
\* there, as a message modulo 2^MessageBits, and 0 when no input is.
TpDecodedAsPacked(u) ==
    IF \E j \in 1 .. Len(indices) : indices[j] = u - 1
    THEN \A j \in 1 .. Len(indices) :
             indices[j] = u - 1 =>
                 cleartext_list[1][u] % (2 ^ MessageBits) = TpMessage(j)
    ELSE cleartext_list[1][u] = 0

\* C6: for an odd custom modulus, a power-of-two polynomial size and at most
\* N LWE ciphertexts placed at pairwise distinct indices, the call returns
\* (it aborts only when one of its assertions fails) and the decryption of
\* its output decodes to the message m_j at coefficient idx_j and to 0 at
\* every coefficient no input is placed at.
C6_TracePackingCorrect ==
    /\ tp_pc = "panicked" =>
           ~ trace_packing_assertions(lwe_tpksk, output_glwe_ciphertext,
                                      input_lwe_ciphertext_list, indices)
    /\ tp_pc = "decoded" =>
           \A u \in 1 .. tp_setup.polynomial_size : TpDecodedAsPacked(u)

\* Two or more inputs were packed under a modulus q with q + 1 outside the
\* scalar type by a build without overflow checks: the halving scalar is 0
\* and a coefficient that carries a nonzero message decodes to 0.
C6_Witness ==
    /\ tp_pc = "decoded"
    /\ halving_scalar_overflows(TpModulusValue)
    /\ Len(indices) >= 2
    /\ \E j \in 1 .. Len(indices) :
           /\ TpMessage(j) # 0
           /\ cleartext_list[1][indices[j] + 1] = 0

\* The packing is correct for every modulus q with q + 1 in the scalar type.
TpCorrectBelowLargestScalar ==
    ~ halving_scalar_overflows(TpModulusValue) => C6_TracePackingCorrect

\* Three inputs were packed out of order into four coefficients, one of them
\* left empty, under the analogue of 2^64 - 2^32 + 1, and decoded.
TpPackedAndDecoded ==
    /\ tp_pc = "decoded"
    /\ tp_setup.polynomial_size = 4
    /\ TpModulusValue = TwoPowW - 2 ^ (ScalarBits \div 2) + 1
    /\ indices = <<2, 0, 3>>
    /\ cleartext_list[1][3] = TpMessage(1)
    /\ cleartext_list[1][3] # 0
    /\ cleartext_list[1][2] = 0
    /\ \E c \in 1 .. 2 : \E t \in 1 .. 4 : output_glwe_ciphertext.data[c][t] # 0

\* The conditions under which the call must refuse its arguments.
TpContractBroken ==
    \/ Len(input_lwe_ciphertext_list.cts) > output_glwe_ciphertext.polynomial_size
    \/ Len(indices) # Len(input_lwe_ciphertext_list.cts)
    \/ \E x \in DOMAIN indices : indices[x] >= output_glwe_ciphertext.polynomial_size
    \/ input_lwe_ciphertext_list.lwe_size # lwe_tpksk.input_lwe_size
    \/ output_glwe_ciphertext.polynomial_size # lwe_tpksk.polynomial_size
    \/ Len(output_glwe_ciphertext.data) # lwe_tpksk.output_glwe_size
    \/ input_lwe_ciphertext_list.ciphertext_modulus # lwe_tpksk.ciphertext_modulus
    \/ output_glwe_ciphertext.ciphertext_modulus # lwe_tpksk.ciphertext_modulus
    \/ is_native_modulus(input_lwe_ciphertext_list.ciphertext_modulus)
    \/ get_custom_modulus(input_lwe_ciphertext_list.ciphertext_modulus) % 2 = 0

\* The output ciphertext as it was allocated before the call.
TpOutputAsAllocated ==
    output_glwe_ciphertext.data =
        GlweCiphertext_new(tp_setup.fill_with, Len(output_glwe_ciphertext.data),
                           output_glwe_ciphertext.polynomial_size)

\* C17: when the LWE count exceeds the polynomial size, the index list has
\* another length than the input list, an index is not below the polynomial
\* size, the inputs' LWE size, the output's polynomial size or GLWE size or
\* one of the two moduli differs from the key's, or the modulus is native or
\* even, the call has aborted as soon as it was made and the output ciphertext
\* is as it was before the call.
C17_AbortsBeforeWriting ==
    (tp_pc # "off" /\ tp_pc # "ready" /\ TpContractBroken) =>
        /\ tp_pc = "panicked"
        /\ TpOutputAsAllocated
        /\ glwe_list = << >>

\* A call with an index equal to the polynomial size has aborted on an output
\* that held non-zero coefficients.
C17_Witness ==
    /\ tp_pc = "panicked"
    /\ tp_setup.fault = "index_range"
    /\ tp_setup.ciphertext_modulus = lwe_tpksk.ciphertext_modulus
    /\ get_custom_modulus(tp_setup.ciphertext_modulus) % 2 = 1
    /\ tp_setup.fill_with # 0
    /\ TpOutputAsAllocated

\* Every way of breaking the contract is tried, and each breaks it.
TpFaultsBreakContract ==
    (tp_pc # "off" /\ tp_setup.fault # "none") => TpContractBroken

\* The scatter has run and no butterfly step has.
TpScattered == tp_pc = "butterfly" /\ tp_round = [l |-> 0, i |-> 0]

\* C25: after the scatter, the slot at position indices[j] holds the mask
\* coefficient t of input j at flattened mask position t (polynomial t div N,
\* coefficient t mod N) and its body at coefficient 0 of the body; every other
\* coefficient of that slot, and every slot no index names, is 0.
C25_ScatterPlacesInputs ==
    TpScattered =>
        \A slot \in 0 .. tp_setup.polynomial_size - 1 :
        \A c \in 1 .. tp_setup.glwe_dimension + 1 :
        \A t \in 0 .. tp_setup.polynomial_size - 1 :
            LET flat == (c - 1) * tp_setup.polynomial_size + t
                placed == { j \in 1 .. Len(indices) : indices[j] = slot }
                lwe(j) == input_lwe_ciphertext_list.cts[j]
            IN  /\ Len(glwe_list) = tp_setup.polynomial_size
                /\ placed = {} => glwe_list[slot + 1][c][t + 1] = 0
                /\ \A j \in placed :
                     glwe_list[slot + 1][c][t + 1] =
                         IF c <= tp_setup.glwe_dimension
                         THEN (IF flat < Len(lwe(j).mask)
                               THEN lwe(j).mask[flat + 1] ELSE 0)
                         ELSE (IF t = 0 THEN lwe(j).body ELSE 0)

\* Two inputs were scattered to the slots 1 and 0, in that order, on a GLWE
\* dimension of 2, and their masks are not zero.
C25_Witness ==
    /\ TpScattered
    /\ tp_setup.glwe_dimension = 2
    /\ indices = << 1, 0 >>
    /\ glwe_list[2][2][1] # 0
    /\ glwe_list[1][3][1] # 0
    /\ glwe_list[1] # glwe_list[2]

\* A butterfly step ran to its end on a pair of slots that were not both zero.
TpStepTaken ==
    /\ tp_pc = "butterfly"
    /\ tp_pc' \in {"butterfly", "copy"}
    /\ LET j == tp_setup.polynomial_size \div (2 ^ (tp_round.l + 1)) + tp_round.i
       IN  \E c \in 1 .. tp_setup.glwe_dimension + 1 :
           \E t \in 1 .. tp_setup.polynomial_size :
               glwe_list[tp_round.i + 1][c][t] # 0 \/ glwe_list[j + 1][c][t] # 0

\* The second slot of the pair multiplied by X^(N / 2^(l+1)).
TpRotatedSecond ==
    LET offset == tp_setup.polynomial_size \div (2 ^ (tp_round.l + 1))
    IN  [c \in 1 .. tp_setup.glwe_dimension + 1 |->
            polynomial_wrapping_monic_monomial_mul_assign_custom_mod(
                glwe_list[offset + tp_round.i + 1][c], offset, TpModulusValue)]

\* ct_plus + KS_l(automorphism(ct_minus)) with the sums, the difference and
\* the products by the given halving scalar taken modulo q.
TpFolded(scalar) ==
    LET q == TpModulusValue
        N == tp_setup.polynomial_size
        first == glwe_list[tp_round.i + 1]
        second == TpRotatedSecond
        ct_plus == [c \in 1 .. tp_setup.glwe_dimension + 1 |->
                       [t \in 1 .. N |->
                           (scalar * ((first[c][t] + second[c][t]) % q)) % q]]
        ct_minus == [c \in 1 .. tp_setup.glwe_dimension + 1 |->
                        [t \in 1 .. N |->
                            (scalar * ((first[c][t] + q - second[c][t]) % q)) % q]]
        ks_out == keyswitch_glwe_ciphertext(
                      lwe_tpksk.stages[tp_round.l + 1],
                      [c \in 1 .. tp_setup.glwe_dimension + 1 |->
                          apply_automorphism_assign_custom_mod(
                              ct_minus[c], 2 ^ (tp_round.l + 1) + 1, q)],
                      q)
    IN  [c \in 1 .. tp_setup.glwe_dimension + 1 |->
            [t \in 1 .. N |-> (ct_plus[c][t] + ks_out[c][t]) % q]]

\* C26 as stated: after a butterfly step on a pair with a nonzero slot, slot i
\* holds ct_plus + KS_l(automorphism_(2^(l+1)+1)(ct_minus)) computed with the
\* stage-l key, and slot i + N/2^(l+1) is all zeros.
C26_StepFoldsAndZeroes ==
    [][TpStepTaken =>
          LET j == tp_setup.polynomial_size \div (2 ^ (tp_round.l + 1)) + tp_round.i
          IN  /\ glwe_list'[tp_round.i + 1] = TpFolded(halving_scalar(TpModulusValue))
              /\ glwe_list'[j + 1] =
                     GlweCiphertext_new(0, tp_setup.glwe_dimension + 1,
                                        tp_setup.polynomial_size)]_vars

\* C26 amended: after such a step slot i holds ct_plus + KS_l(automorphism(
\* ct_minus)) computed with the stage-l key, slot i + N/2^(l+1) holds its
\* earlier content multiplied by X^(N/2^(l+1)), and every other slot is as
\* it was.
C26_StepFoldsAndRotates ==
    [][TpStepTaken =>
          LET j == tp_setup.polynomial_size \div (2 ^ (tp_round.l + 1)) + tp_round.i
          IN  /\ glwe_list'[tp_round.i + 1] = TpFolded(halving_scalar(TpModulusValue))
              /\ glwe_list'[j + 1] = TpRotatedSecond
              /\ \A slot \in 1 .. tp_setup.polynomial_size :
                     slot \notin {tp_round.i + 1, j + 1}
                         => glwe_list'[slot] = glwe_list[slot]]_vars

\* A step of the second round has folded two nonzero slots: slot 0 has
\* changed and slot 1 holds a rotated, nonzero ciphertext.
C26_Witness ==
    /\ tp_pc = "copy"
    /\ tp_setup.polynomial_size = 4
    /\ Len(indices) = 4
    /\ \E c \in 1 .. tp_setup.glwe_dimension + 1 : \E t \in 1 .. 4 :
           glwe_list[2][c][t] # 0
    /\ \E c \in 1 .. tp_setup.glwe_dimension + 1 : \E t \in 1 .. 4 :
           glwe_list[1][c][t] # 0

\* C27: the halving scalar the step computes as (q + 1) / 2 in the scalar
\* type is the inverse of 2 modulo q, so that the step folds the halves
\* (ct_0 + X^offset * ct_1) / 2 and (ct_0 - X^offset * ct_1) / 2 modulo q.
C27_HalvingScalarInvertsTwo ==
    [][TpStepTaken =>
          /\ (2 * halving_scalar(TpModulusValue)) % TpModulusValue = 1
          /\ glwe_list'[tp_round.i + 1] = TpFolded((TpModulusValue + 1) \div 2)]_vars

\* A step has run with the largest odd modulus of the scalar type in a build
\* without overflow checks: slot 0, which held an input, is all zeros.
C27_Witness ==
    /\ tp_pc \in {"butterfly", "copy"}
    /\ tp_round # [l |-> 0, i |-> 0]
    /\ TpModulusValue = TwoPowW - 1
    /\ \E j \in 1 .. Len(indices) : indices[j] = 0
    /\ glwe_list[1] = GlweCiphertext_new(0, tp_setup.glwe_dimension + 1,
                                         tp_setup.polynomial_size)

\* For every odd modulus q > 1 with q + 1 in the scalar type, the halving
\* scalar is the inverse of 2, and the steps fold the halves modulo q.
TpHalvingScalarBelowLargest ==
    [][/\ \A q \in 3 .. TwoPowW - 2 :
              q % 2 = 1 => (2 * halving_scalar(q)) % q = 1
       /\ (TpStepTaken /\ ~ halving_scalar_overflows(TpModulusValue))
              => glwe_list'[tp_round.i + 1] = TpFolded((TpModulusValue + 1) \div 2)
      ]_vars

\* Every coefficient of a GLWE ciphertext is a residue modulo q.
TpReduced(glwe, q) ==
    \A c \in 1 .. Len(glwe) : \A t \in 1 .. Len(glwe[c]) :
        glwe[c][t] >= 0 /\ glwe[c][t] < q

\* The inputs of the call are residues: the coefficients of the LWE list and
\* of every stage of the trace-packing key.
TpInputsReduced ==
    /\ \A j \in 1 .. Len(input_lwe_ciphertext_list.cts) :
          /\ \A t \in 1 .. Len(input_lwe_ciphertext_list.cts[j].mask) :
                input_lwe_ciphertext_list.cts[j].mask[t] < TpModulusValue
          /\ input_lwe_ciphertext_list.cts[j].body < TpModulusValue
    /\ \A l \in 1 .. Len(lwe_tpksk.stages) :
          \A p \in 1 .. Len(lwe_tpksk.stages[l]) :
              TpReduced(lwe_tpksk.stages[l][p], TpModulusValue)

\* C28: with an odd custom modulus q and inputs in [0, q), every coefficient
\* of every slot after the scatter and after every butterfly step, and every
\* coefficient of the output at the return, lies in [0, q), though the copies
\* into the working ciphertexts and into the output are plain wrapping
\* additions.
C28_CoefficientsStayReduced ==
    (TpModulusValue % 2 = 1 /\ TpInputsReduced) =>
        /\ \A s \in 1 .. Len(glwe_list) : TpReduced(glwe_list[s], TpModulusValue)
        /\ tp_pc \in {"returned", "decoded"} =>
               TpReduced(output_glwe_ciphertext.data, TpModulusValue)

\* The call has returned after a step that folded a coefficient whose two
\* halves sum past q: slot 0 holds a residue in the upper half of [0, q).
C28_Witness ==
    /\ tp_pc = "returned"
    /\ TpModulusValue % 2 = 1
    /\ TpInputsReduced
    /\ Len(indices) >= 2
    /\ \E c \in 1 .. Len(output_glwe_ciphertext.data) :
          \E t \in 1 .. tp_setup.polynomial_size :
              /\ output_glwe_ciphertext.data[c][t] = glwe_list[1][c][t]
              /\ 2 * output_glwe_ciphertext.data[c][t] > TpModulusValue

\* The rounds of the butterfly from round l, pair i on end with packed in
\* slot 0: a relation between the slots, the key, the shape and the result.
RECURSIVE TpRoundsGive(_, _, _, _)
TpRoundsGive(list, l, i, packed) ==
    IF l = log2(lwe_tpksk.polynomial_size) THEN list[1] = packed
    ELSE LET pairs == lwe_tpksk.polynomial_size \div (2 ^ (l + 1))
         IN  \E stepped \in {butterfly_step(list, lwe_tpksk.stages[l + 1], l, i,
                                             lwe_tpksk.polynomial_size,
                                             TpModulusValue)} :
                 IF i + 1 < pairs THEN TpRoundsGive(stepped, l, i + 1, packed)
                 ELSE TpRoundsGive(stepped, l + 1, 0, packed)

\* packed is slot 0 after the last round, from the key, the LWE list and the
\* indices: the output buffer is no argument of it.
TpPackedFromInputs(packed) ==
    \E scattered \in {initial_glwe_list(input_lwe_ciphertext_list.cts, indices,
                                         lwe_tpksk.output_glwe_size,
                                         lwe_tpksk.polynomial_size,
                                         TpModulusValue)} :
        TpRoundsGive(scattered, 0, 0, packed)

\* C29: the output of a trace packing does not depend on what the output
\* buffer held before the call: at the return it equals slot 0 after the last
\* butterfly round, which is a function of the key, the LWE list and the
\* indices, whatever the buffer was filled with.
C29_OutputIgnoresInitialContents ==
    tp_pc \in {"returned", "decoded"} =>
        /\ output_glwe_ciphertext.data = glwe_list[1]
        /\ TpPackedFromInputs(output_glwe_ciphertext.data)

\* A call on an output buffer that was not zero has returned a packing of
\* two inputs that is neither zero nor what the buffer held.
C29_Witness ==
    /\ tp_pc = "returned"
    /\ tp_setup.fill_with # 0
    /\ Len(indices) >= 2
    /\ any_nonzero(output_glwe_ciphertext.data)
    /\ output_glwe_ciphertext.data = glwe_list[1]
    /\ output_glwe_ciphertext.data #
           GlweCiphertext_new(tp_setup.fill_with, tp_setup.glwe_dimension + 1,
                              tp_setup.polynomial_size)

\* From the reset on, the output is zero until the return.
TpOutputZeroDuringRounds ==
    tp_pc \in {"butterfly", "copy"} => ~any_nonzero(output_glwe_ciphertext.data)

(***************************************************************************)
(* Bootstrap batch: the inputs, outputs and ComputationBuffers of the      *)
(* parallel benchmark, one item of the batch per worker, every worker      *)
(* running programmable_bootstrap_lwe_ciphertext_mem_optimized step by     *)
(* step on the shared key, accumulator and FFT handle.                     *)
(***************************************************************************)
\* A batch is either the benchmark's own (an empty key, a zero accumulator,
\* encryptions of zero) or one with the key converted from the input secret
\* key, a lookup table in the accumulator and a message per item.
\* How a ComputationBuffers is sized: as the benchmark does, one scalar
\* short of the requirement, holding the local accumulator only, or never
\* resized.
PbsSizings == {"exact", "short", "accumulator_only", "empty"}

PbsSetups ==
    UNION { { [input_lwe_dimension |-> n,
               glwe_dimension      |-> 1,
               polynomial_size     |-> 2,
               capacity            |-> c,
               sizing              |-> sz,
               seed                |-> sd,
               key_converted       |-> kc] :
                 sz \in [1 .. c -> PbsSizings] } :
            <<n, c, sd, kc>> \in (1 .. MaxLweDimension) \X (1 .. MaxBatch)
                                   \X (0 .. MaxSeed) \X BOOLEAN }

PbsGlweSize == pbs_setup.glwe_dimension + 1

PbsRequirement ==
    programmable_bootstrap_lwe_ciphertext_mem_optimized_requirement(
        PbsGlweSize, pbs_setup.polynomial_size)

\* Mutant: the buffers are resized to one scalar less than the requirement.
bench_buffer_size_one_short(glwe_size, polynomial_size) ==
    programmable_bootstrap_lwe_ciphertext_mem_optimized_requirement(
        glwe_size, polynomial_size) - 1

\* The size the benchmark resizes every ComputationBuffers to.
bench_buffer_size(glwe_size, polynomial_size) ==
    programmable_bootstrap_lwe_ciphertext_mem_optimized_requirement(
        glwe_size, polynomial_size)

PbsBufferSize(setup, w) ==
    LET glwe_size == setup.glwe_dimension + 1
        requirement ==
            programmable_bootstrap_lwe_ciphertext_mem_optimized_requirement(
                glwe_size, setup.polynomial_size)
    IN  CASE setup.sizing[w] = "exact" ->
                 bench_buffer_size(glwe_size, setup.polynomial_size)
          [] setup.sizing[w] = "short" -> requirement - 1
          [] setup.sizing[w] = "accumulator_only" ->
                 glwe_size * setup.polynomial_size
          [] OTHER -> 0

\* Mutant: every item of the batch is handed the first ComputationBuffers.
worker_items_one_buffer(w) == [input |-> w, output |-> w, buffers |-> 1]

\* The item the parallel zip hands to worker w: input w, output w, buffers w.
worker_items(w) == [input |-> w, output |-> w, buffers |-> w]

InitBootstrapBatch ==
    /\ EntIdle
    /\ DecIdle
    /\ KsIdle
    /\ CrsIdle
    /\ TpIdle
    /\ pbs_setup \in PbsSetups
    /\ LET n == pbs_setup.input_lwe_dimension
           key == generate_binary_lwe_secret_key(pbs_setup.seed, 0, n)
           generator == EncryptionRandomGenerator_new(
                            pbs_setup.seed + 1,
                            DeterministicSeeder_new(pbs_setup.seed)).generator
           blank == [w \in 1 .. pbs_setup.capacity |-> LweCiphertext_new(0, n + 1)]
       IN  /\ fourier_bsk = IF pbs_setup.key_converted THEN key
                            ELSE [t \in 1 .. n |-> 0]
           /\ accumulator =
                [c \in 1 .. PbsGlweSize |->
                    [u \in 1 .. pbs_setup.polynomial_size |->
                        IF ~pbs_setup.key_converted THEN 0
                        ELSE IF c = PbsGlweSize
                             THEN Shl(u + pbs_setup.seed, ScalarBits - MessageBits - 1)
                             ELSE MaskSample(pbs_setup.seed, c * u)]]
           /\ input_vec =
                encrypt_lwe_ciphertext_list(
                    key, blank,
                    [w \in 1 .. pbs_setup.capacity |->
                        IF pbs_setup.key_converted
                        THEN Shl(w % (2 ^ MessageBits), ScalarBits - MessageBits)
                        ELSE 0],
                    generator, pbs_setup.capacity).list
    /\ output_vec =
         [w \in 1 .. pbs_setup.capacity |->
             LweCiphertext_new(
                 0, pbs_setup.glwe_dimension * pbs_setup.polynomial_size + 1)]
    /\ buffers_vec =
         [w \in 1 .. pbs_setup.capacity |->
             ComputationBuffers_resize(PbsBufferSize(pbs_setup, w))]
    /\ worker = [w \in 1 .. pbs_setup.capacity |-> [pc |-> "idle", i |-> 0]]

PbsLocalAccumulator(w) ==
    memory_as_glwe(buffers_vec[worker_items(w).buffers], PbsGlweSize,
                   pbs_setup.polynomial_size)

\* The call is entered: the local accumulator is taken from the stack, or the
\* stack is too small for it, and it is set to the accumulator divided by X^b.
BootstrapEnterOf(w) ==
    /\ UNCHANGED << decVars, ksVars, crsVars, tpVars, entVars >>
    /\ w \in DOMAIN worker
    /\ worker[w].pc = "idle"
    /\ LET item == worker_items(w)
           buffers == buffers_vec[item.buffers]
       IN  IF Len(buffers) < PbsGlweSize * pbs_setup.polynomial_size
           THEN /\ worker' = [worker EXCEPT ![w].pc = "panicked"]
                /\ UNCHANGED buffers_vec
           ELSE /\ worker' = [worker EXCEPT ![w].pc = "blind_rotate"]
                /\ buffers_vec' =
                     [buffers_vec EXCEPT ![item.buffers] =
                         memory_write(buffers,
                             glwe_as_memory(
                                 blind_rotate_init(accumulator, input_vec[item.input],
                                                   pbs_setup.polynomial_size),
                                 pbs_setup.polynomial_size))]
    /\ UNCHANGED << pbs_setup, fourier_bsk, accumulator, input_vec, output_vec >>

\* One CMux of the blind rotation: its scratch is taken from what the stack
\* has left after the local accumulator, or the stack is too small for it.
BlindRotateStepOf(w) ==
    /\ UNCHANGED << decVars, ksVars, crsVars, tpVars, entVars >>
    /\ w \in DOMAIN worker
    /\ worker[w].pc = "blind_rotate"
    /\ worker[w].i < Len(fourier_bsk)
    /\ LET item == worker_items(w)
           buffers == buffers_vec[item.buffers]
           left == Len(buffers) - PbsGlweSize * pbs_setup.polynomial_size
       IN  IF left < cmux_scratch(PbsGlweSize, pbs_setup.polynomial_size)
           THEN /\ worker' = [worker EXCEPT ![w].pc = "panicked"]
                /\ UNCHANGED buffers_vec
           ELSE /\ worker' = [worker EXCEPT ![w].i = worker[w].i + 1]
                /\ buffers_vec' =
                     [buffers_vec EXCEPT ![item.buffers] =
                         memory_write(buffers,
                             glwe_as_memory(
                                 cmux(PbsLocalAccumulator(w),
                                      fourier_bsk[worker[w].i + 1],
                                      input_vec[item.input].mask[worker[w].i + 1],
                                      pbs_setup.polynomial_size),
                                 pbs_setup.polynomial_size))]
    /\ UNCHANGED << pbs_setup, fourier_bsk, accumulator, input_vec, output_vec >>

\* The sample extraction: the output ciphertext is written and the call returns.
SampleExtractOf(w) ==
    /\ UNCHANGED << decVars, ksVars, crsVars, tpVars, entVars >>
    /\ w \in DOMAIN worker
    /\ worker[w].pc = "blind_rotate"
    /\ worker[w].i = Len(fourier_bsk)
    /\ output_vec' =
         [output_vec EXCEPT ![worker_items(w).output] =
             extract_lwe_sample_from_glwe_ciphertext(
                 PbsLocalAccumulator(w), pbs_setup.polynomial_size)]
    /\ worker' = [worker EXCEPT ![w].pc = "done"]
    /\ UNCHANGED << pbs_setup, fourier_bsk, accumulator, input_vec, buffers_vec >>

BootstrapEnter == \E w \in 1 .. MaxBatch : BootstrapEnterOf(w)

BlindRotateStep == \E w \in 1 .. MaxBatch : BlindRotateStepOf(w)

SampleExtract == \E w \in 1 .. MaxBatch : SampleExtractOf(w)

NextBootstrapBatch ==
    \/ BootstrapEnter
    \/ BlindRotateStep
    \/ SampleExtract

SpecBootstrapBatch == InitBootstrapBatch /\ [][NextBootstrapBatch]_vars

\* The thread pool runs every item of the batch: a worker that can take a
\* step of its bootstrap eventually takes it.
SpecBootstrapBatchFair ==
    /\ SpecBootstrapBatch
    /\ \A w \in 1 .. MaxBatch :
          WF_vars(BootstrapEnterOf(w) \/ BlindRotateStepOf(w) \/ SampleExtractOf(w))


(***************************************************************************)
(* Properties of the bootstrap batch.                                      *)
(***************************************************************************)
PbsBlankOutput ==
    LweCiphertext_new(0, pbs_setup.glwe_dimension * pbs_setup.polynomial_size + 1)

PbsPc(w) == IF w \in DOMAIN worker THEN worker[w].pc ELSE "absent"

PbsUndersized(w) ==
    w \in DOMAIN worker /\ Len(buffers_vec[w]) < PbsRequirement

PbsSizedAsBenchmark(w) ==
    w \in DOMAIN worker /\ pbs_setup.sizing[w] = "exact"

C16_WorkersIndependent ==
    /\ [](\A w \in DOMAIN worker :
            worker[w].pc = "done" =>
                output_vec[w] =
                    programmable_bootstrap_lwe_ciphertext_mem_optimized(
                        input_vec[w], accumulator, fourier_bsk,
                        pbs_setup.polynomial_size))
    /\ [][\A w \in DOMAIN worker :
            worker'[w] = worker[w] =>
                output_vec'[w] = output_vec[w] /\ buffers_vec'[w] = buffers_vec[w]]_vars
    /\ [][/\ fourier_bsk' = fourier_bsk
          /\ accumulator' = accumulator
          /\ input_vec' = input_vec]_vars

\* Two bootstraps of one batch have both completed on a converted key with two
\* key elements, with outputs that differ from each other and from the blank
\* output, and scratch buffers that differ.
C16_Witness ==
    /\ pbs_setup # << >>
    /\ pbs_setup.capacity >= 2
    /\ pbs_setup.key_converted
    /\ pbs_setup.input_lwe_dimension >= 2
    /\ \E t \in DOMAIN fourier_bsk : fourier_bsk[t] = 1
    /\ worker[1].pc = "done"
    /\ worker[2].pc = "done"
    /\ output_vec[1] # output_vec[2]
    /\ output_vec[1] # PbsBlankOutput
    /\ output_vec[2] # PbsBlankOutput
    /\ buffers_vec[1] # buffers_vec[2]

(***************************************************************************)
(* CRS entity session: one entity is built by one of its constructors, its *)
(* accessors are read, and it is rebuilt from its container or viewed.     *)
(***************************************************************************)
EntModuli ==
    {CiphertextModulus_new_native, CiphertextModulus_try_new(2 ^ (ScalarBits - 1))}

\* One record per constructor call; the arguments a call does not take are 0.
EntCall(kind, ctor, len, size, dimension, codim, cod, N, modulus) ==
    [kind |-> kind, ctor |-> ctor, len |-> len, size |-> size,
     dimension |-> dimension, codim |-> codim, cod |-> cod, N |-> N,
     modulus |-> modulus]

EntSetups ==
    LET lens   == 0 .. MaxEntLen
        codims == 0 .. MaxEntCodim
        sizes  == 0 .. MaxEntPolynomialSize
    IN  \* CRSGlweCiphertext::new(0, CRSGlweSize(size, codim), N, modulus)
        { EntCall("crs_glwe_ciphertext", "new", 0, c[1], 0, c[2], 0, c[3], c[4]) :
            c \in (0 .. MaxEntCodim) \X codims \X sizes \X EntModuli }
        \cup
        \* CRSGlweCiphertext::from_container(container, N, modulus, cod)
        { EntCall("crs_glwe_ciphertext", "from_container", c[1], 0, 0, 0, c[2], c[3], c[4]) :
            c \in lens \X codims \X sizes \X EntModuli }
        \cup
        \* CRSGlweSecretKey::new_empty_key(0, dimension, codim, N)
        { EntCall("crs_glwe_secret_key", "new", 0, 0, c[1], c[2], 0, c[3],
                  CiphertextModulus_new_native) :
            c \in (0 .. 2) \X (0 .. 2) \X sizes }
        \cup
        \* CRSGlweSecretKey::from_container(container, N, codim)
        { EntCall("crs_glwe_secret_key", "from_container", c[1], 0, 0, 0, c[2], c[3],
                  CiphertextModulus_new_native) :
            c \in lens \X codims \X sizes }
        \cup
        \* CRSLweCiphertext::new(0, CRSLweSize(size, codim), modulus, cod)
        { EntCall("crs_lwe_ciphertext", "new", 0, c[1], 0, c[2], c[3], 0, c[4]) :
            c \in lens \X codims \X codims \X EntModuli }
        \cup
        \* CRSLweCiphertext::from_container(container, modulus, cod)
        { EntCall("crs_lwe_ciphertext", "from_container", c[1], 0, 0, 0, c[2], 0, c[3]) :
            c \in lens \X codims \X EntModuli }

\* The container handed to from_container: coefficient t holds t.
EntContainer(len) == [t \in 1 .. len |-> t]

InitEntities ==
    /\ DecIdle
    /\ KsIdle
    /\ CrsIdle
    /\ TpIdle
    /\ PbsIdle
    /\ ent_setup \in EntSetups
    /\ entity = None
    /\ ent_access = None
    /\ ent_pc = "start"

\* The constructor of the setup: whether its assertions pass, and what it builds.
EntAccepted(setup) ==
    CASE setup.kind = "crs_glwe_ciphertext" /\ setup.ctor = "new" ->
           crs_glwe_from_container_accepts(
               [t \in 1 .. crs_glwe_ciphertext_size(
                               CRSGlweSize(setup.size, setup.codim), setup.N) |-> 0],
               setup.N)
      [] setup.kind = "crs_glwe_secret_key" /\ setup.ctor = "new" ->
           crs_glwe_from_container_accepts(
               [t \in 1 .. setup.dimension * setup.N * setup.codim |-> 0], setup.N)
      [] setup.kind = "crs_lwe_ciphertext" /\ setup.ctor = "new" ->
           crs_lwe_from_container_accepts([t \in 1 .. setup.size |-> 0])
      [] setup.kind = "crs_lwe_ciphertext" /\ setup.ctor = "from_container" ->
           crs_lwe_from_container_accepts(EntContainer(setup.len))
      [] OTHER ->
           crs_glwe_from_container_accepts(EntContainer(setup.len), setup.N)

EntBuilt(setup) ==
    CASE setup.kind = "crs_glwe_ciphertext" /\ setup.ctor = "new" ->
           CRSGlweCiphertext_new(0, CRSGlweSize(setup.size, setup.codim), setup.N,
                                 setup.modulus)
      [] setup.kind = "crs_glwe_ciphertext" /\ setup.ctor = "from_container" ->
           CRSGlweCiphertext_from_container(EntContainer(setup.len), setup.N,
                                            setup.modulus, setup.cod)
      [] setup.kind = "crs_glwe_secret_key" /\ setup.ctor = "new" ->
           CRSGlweSecretKey_new_empty_key(0, setup.dimension, setup.codim, setup.N)
      [] setup.kind = "crs_glwe_secret_key" /\ setup.ctor = "from_container" ->
           CRSGlweSecretKey_from_container(EntContainer(setup.len), setup.N,
                                           setup.cod)
      [] setup.kind = "crs_lwe_ciphertext" /\ setup.ctor = "new" ->
           CRSLweCiphertext_new(0, CRSLweSize(setup.size, setup.codim),
                                setup.modulus, setup.cod)
      [] setup.kind = "crs_lwe_ciphertext" /\ setup.ctor = "from_container" ->
           CRSLweCiphertext_from_container(EntContainer(setup.len), setup.modulus,
                                           setup.cod)

\* new / new_empty_key / from_container
EntConstruct ==
    /\ UNCHANGED << decVars, ksVars, crsVars, tpVars, pbsVars >>
    /\ ent_pc = "start"
    /\ IF EntAccepted(ent_setup)
       THEN entity' = Some(EntBuilt(ent_setup)) /\ ent_pc' = "owned"
       ELSE entity' = None /\ ent_pc' = "rejected"
    /\ UNCHANGED << ent_setup, ent_access >>

\* What the accessors of an entity return; None where the call panics.
EntAccessors(kind, e) ==
    CASE kind = "crs_glwe_ciphertext" ->
           [size               |-> crs_glwe_size(e),
            polynomial_size    |-> e.polynomial_size,
            ciphertext_modulus |-> e.ciphertext_modulus,
            mask_and_body      |-> IF crs_glwe_split_in_range(e)
                                   THEN Some(get_mask_and_body(e)) ELSE None,
            mask               |-> IF crs_glwe_split_in_range(e)
                                   THEN Some(get_mask(e)) ELSE None,
            body               |-> IF crs_glwe_split_in_range(e)
                                   THEN Some(get_body(e)) ELSE None]
      [] kind = "crs_glwe_secret_key" ->
           [dimension       |-> IF crs_glwe_dimension_in_range(e)
                                THEN Some(crs_glwe_dimension(e)) ELSE None,
            polynomial_size |-> e.polynomial_size]
      [] kind = "crs_lwe_ciphertext" ->
           [size               |-> crs_lwe_size(e),
            ciphertext_modulus |-> e.ciphertext_modulus,
            mask_and_body      |-> IF crs_lwe_split_in_range(e)
                                   THEN Some(crs_lwe_get_mask_and_body(e)) ELSE None,
            mask               |-> IF crs_lwe_split_in_range(e)
                                   THEN Some(crs_lwe_get_mask(e)) ELSE None,
            body               |-> IF crs_lwe_split_in_range(e)
                                   THEN Some(crs_lwe_get_body(e)) ELSE None]

\* The size, shape and mask / body accessors are called on the entity.
EntAccess ==
    /\ UNCHANGED << decVars, ksVars, crsVars, tpVars, pbsVars >>
    /\ ent_pc \in {"owned", "rebuilt", "view"}
    /\ ent_access = None
    /\ ent_access' = Some(EntAccessors(ent_setup.kind, entity[1]))
    /\ UNCHANGED << ent_setup, entity, ent_pc >>

\* into_container followed by from_container with the entity's own shape.
EntIntoContainerFromContainer ==
    /\ UNCHANGED << decVars, ksVars, crsVars, tpVars, pbsVars >>
    /\ ent_pc = "owned"
    /\ LET e == entity[1]
           container == e.data
       IN  entity' =
             Some(CASE ent_setup.kind = "crs_glwe_ciphertext" ->
                         CRSGlweCiphertext_from_container(
                             container, e.polynomial_size, e.ciphertext_modulus,
                             e.codim)
                    [] ent_setup.kind = "crs_glwe_secret_key" ->
                         CRSGlweSecretKey_from_container(
                             container, e.polynomial_size, e.codimension)
                    [] ent_setup.kind = "crs_lwe_ciphertext" ->
                         CRSLweCiphertext_from_container(
                             container, e.ciphertext_modulus, e.codim))
    /\ ent_access' = None
    /\ ent_pc' = "rebuilt"
    /\ UNCHANGED ent_setup

\* as_view / as_mut_view of a ciphertext.
EntAsView ==
    /\ UNCHANGED << decVars, ksVars, crsVars, tpVars, pbsVars >>
    /\ ent_pc \in {"owned", "rebuilt"}
    /\ ent_setup.kind # "crs_glwe_secret_key"
    /\ entity' = Some(IF ent_setup.kind = "crs_glwe_ciphertext"
                      THEN crs_glwe_as_view(entity[1])
                      ELSE crs_lwe_as_view(entity[1]))
    /\ ent_access' = None
    /\ ent_pc' = "view"
    /\ UNCHANGED ent_setup

NextEntities ==
    \/ EntConstruct
    \/ EntAccess
    \/ EntIntoContainerFromContainer
    \/ EntAsView

SpecEntities == InitEntities /\ [][NextEntities]_vars

(***************************************************************************)
(* Properties of the CRS entities.                                         *)
(***************************************************************************)
\* The size a ciphertext was constructed with: the one handed to new, or the
\* container's length (in polynomials for CRSGLWE) with the codimension handed
\* to from_container.
EntConstructionSize ==
    IF ent_setup.ctor = "new"
    THEN << ent_setup.size, ent_setup.codim >>
    ELSE IF ent_setup.kind = "crs_glwe_ciphertext"
         THEN << ent_setup.len \div ent_setup.N, ent_setup.cod >>
         ELSE << ent_setup.len, ent_setup.cod >>

\* What C21 states of the accessors of an accepted CRSGLWE ciphertext.
EntGlwePartition ==
    LET a   == ent_access[1]
        N   == ent_setup.N
        d   == EntConstructionSize[2]
        len == Len(entity[1].data)
    IN  /\ a.mask_and_body # None /\ a.mask # None /\ a.body # None
        /\ \E k \in 0 .. len :
             /\ (k + d) * N = len
             /\ Len(a.mask[1].data) = k * N
             /\ Len(a.body[1].data) = d * N
        /\ a.mask[1].data \o a.body[1].data = entity[1].data
        /\ a.mask_and_body[1].mask = a.mask[1]
        /\ a.mask_and_body[1].body = a.body[1]
        /\ a.size = EntConstructionSize
        /\ a.polynomial_size = N
        /\ a.ciphertext_modulus = ent_setup.modulus

\* C21 as stated: for every accepted CRSGLWE ciphertext, owned, rebuilt from
\* its container or viewed, the accessors succeed, the mask is the first k*N
\* coefficients and the body the last d*N with (k+d)*N the buffer length, and
\* size, polynomial size and modulus are the construction values.
C21_AccessorsPartition ==
    (ent_setup.kind = "crs_glwe_ciphertext" /\ ent_access # None)
        => EntGlwePartition

\* C21 amended: the same for every accepted CRSGLWE ciphertext whose
\* codimension does not exceed its size (buffer length / N).
C21_AccessorsPartitionWithinSize ==
    (/\ ent_setup.kind = "crs_glwe_ciphertext"
     /\ ent_access # None
     /\ EntConstructionSize[2] <= EntConstructionSize[1])
        => EntGlwePartition

\* A view of a ciphertext rebuilt from a container of two mask coefficients
\* and two body coefficients was read.
C21_Witness ==
    /\ ent_setup.kind = "crs_glwe_ciphertext"
    /\ ent_setup.ctor = "from_container"
    /\ ent_setup.N = 2
    /\ ent_pc = "view"
    /\ ent_access # None
    /\ ent_access[1].mask = Some([data |-> << 1, 2 >>, polynomial_size |-> 2,
                                  ciphertext_modulus |-> ent_setup.modulus])
    /\ ent_access[1].body # None
    /\ ent_access[1].body[1].data = << 3, 4 >>

\* C22: every accepted CRSGLWE secret key has buffer length dimension *
\* codimension * polynomial size; new_empty_key(k, d, N) reports dimension k
\* and polynomial size N, also once rebuilt from its container.
C22_KeyLengthInvariant ==
    (ent_setup.kind = "crs_glwe_secret_key" /\ ent_access # None)
        => /\ ent_access[1].dimension # None
           /\ Len(entity[1].data)
                = ent_access[1].dimension[1] * entity[1].codimension
                    * ent_access[1].polynomial_size
           /\ ent_setup.ctor = "new"
                => /\ ent_access[1].dimension[1] = ent_setup.dimension
                   /\ ent_access[1].polynomial_size = ent_setup.N

\* A key accepted by from_container whose length its codimension does not divide.
C22_Witness ==
    /\ ent_setup.kind = "crs_glwe_secret_key"
    /\ ent_setup.ctor = "from_container"
    /\ ent_access # None
    /\ ent_access[1].dimension = Some(1)
    /\ Len(entity[1].data) = 3
    /\ entity[1].codimension = 2

\* The keys new_empty_key builds keep the length invariant and report the
\* dimension and polynomial size they were built with.
EntNewEmptyKeyInvariant ==
    (ent_setup.kind = "crs_glwe_secret_key" /\ ent_setup.ctor = "new"
       /\ ent_access # None)
        => /\ ent_access[1].dimension = Some(ent_setup.dimension)
           /\ ent_access[1].polynomial_size = ent_setup.N
           /\ Len(entity[1].data) = ent_setup.dimension * ent_setup.codim * ent_setup.N

\* C23: after CRSLweCiphertext::new with a size S of dimension n and
\* codimension d, crs_lwe_size() is S, the buffer has n + d coefficients, the
\* mask is the first n and the body the last d, also once rebuilt or viewed.
C23_LweNewPartition ==
    (/\ ent_setup.kind = "crs_lwe_ciphertext"
     /\ ent_setup.ctor = "new"
     /\ ent_setup.codim <= ent_setup.size
     /\ ent_access # None)
        => LET a == ent_access[1]
               n == ent_setup.size - ent_setup.codim
               d == ent_setup.codim
           IN  /\ a.size = << ent_setup.size, ent_setup.codim >>
               /\ Len(entity[1].data) = n + d
               /\ a.mask # None /\ a.body # None /\ a.mask_and_body # None
               /\ a.mask[1].data = SubSeq(entity[1].data, 1, n)
               /\ a.body[1].data = SubSeq(entity[1].data, n + 1, n + d)
               /\ a.mask_and_body[1].mask = a.mask[1]
               /\ a.mask_and_body[1].body = a.body[1]

\* new was handed CRSLweSize(3, 1) and the codimension 2, and the accessors
\* were read.
C23_Witness ==
    /\ ent_setup.kind = "crs_lwe_ciphertext"
    /\ ent_setup.ctor = "new"
    /\ ent_setup.size = 3 /\ ent_setup.codim = 1 /\ ent_setup.cod = 2
    /\ ent_access # None
    /\ ent_access[1].size = << 3, 2 >>

\* When the codimension handed to new is the one of the size, C23 holds.
EntLweNewConsistentPartition ==
    ent_setup.cod = ent_setup.codim => C23_LweNewPartition

====
